---- MODULE Spec2Model ----
(***************************************************************************)
(* Call Session Core of talk-to-claude: the CallManager of                 *)
(* server/src/phone-call.ts (registry, indexes, webhook and upgrade        *)
(* handlers, Driver commands) together with the parts of the Nova Sonic    *)
(* session and of the STT session that the manager drives.                 *)
(*                                                                         *)
(* Identifiers.  Call ids are 1..MaxCalls in creation order                *)
(* (++currentCallId).  The carrier call ref and the wsToken of call c are  *)
(* both written c: the carrier hands out distinct refs and                 *)
(* generateWebSocketToken draws 32 random bytes.  0 stands for null.       *)
(***************************************************************************)
EXTENDS Integers, Sequences, FiniteSets, TLC

\* ------------------------------------------------------------------ bounds
MaxCalls == 1
MaxCmds == 1
MaxSockets == 2
\* Traffic of one agent session: audio frames and texts sent to it, content
\* blocks and USER texts received from it, toolUse events per tool use,
\* turn waits.
MaxAudio == 2
MaxSendTexts == 1
MaxBlocks == 2
MaxChunks == 2
MaxHeard == 2
MaxWaits == 2
\* Calls of connect() on one session.
MaxConnects == 2
\* Audio chunks one STT session is sent, and the time between two of them
\* in ms.
MaxTicks == 10
TickMs == 100
\* Samples in a buffer handed to a downsampler.
MaxSamples == 4
\* Converse calls of one brain.
MaxConverse == 3
\* Chunks the TTS stream yields in one playback.
MaxTtsChunks == 3

CallIds == 1..MaxCalls
CmdIds == 1..MaxCmds
\* Identities of the tasks that can wait for a user turn: a Driver command
\* (its index), initiate_call, or the background conversation loop.
InitW == MaxCmds + 1
LoopW == MaxCmds + 2
\* Token values an upgrade request can present: none (0) or the token of a
\* call, which is in the index only between its issue and its removal.
Tokens == 0..MaxCalls
\* Carrier refs a webhook can name: a ref of ours or an unknown one.
BogusRef == MaxCalls + 1
Refs == 1..BogusRef

VARIABLES
  config,        \* ServerConfig, fixed at start-up
  currentCallId, \* CallManager.currentCallId
  activeCalls,   \* CallManager.activeCalls: call ids in insertion order
  cs,            \* the CallState objects, by call id
  ccIndex,       \* CallManager.callControlIdToCallId (ref c maps to call c)
  tokIndex,      \* CallManager.wsTokenToCallId (token c maps to call c)
  sockets,       \* every accepted media WebSocket, in order of acceptance
  init,          \* the initiateCall invocation of each call
  cmds,          \* the continue/speak/end invocations, in order of arrival
  loop,          \* runConversationLoop of each call
  lastFrame,     \* the media frame the step just taken wrote to a carrier socket
  sd,            \* the process: the phase of its signal handler, and the
                 \* endCall each session got from CallManager.shutdown
  ns,            \* one NovaSonicSessionImpl, its fields
  turn,          \* the turn fields of the CallState that owns the session
  env,           \* what the session was sent and what the model has emitted
  tools,         \* the tool uses whose executeTool is running
  log,           \* what the outbound iterator delivered and the hooks returned
  tts,           \* one speakStreaming invocation: its locals and the frames
                 \* it handed to sendMediaChunk
  stt,           \* one SelfHostedSTTSession: its fields, the clock, and the
                 \* audio behind each transcription post
  brain,         \* one ClaudeBrain: its message history, and the
                 \* claudeRespondAndSpeak or injectContext of each caller
  dsp            \* a buffer of 24 kHz samples and what each downsampler
                 \* returned for it

vars == <<config, currentCallId, activeCalls, cs, ccIndex, tokIndex, sockets,
          init, cmds, loop, lastFrame, sd, ns, turn, env, tools, log, tts, stt,
          brain, dsp>>

auxVars == <<tts, stt, brain, dsp>>

mgrVars == <<config, currentCallId, activeCalls, cs, ccIndex, tokIndex, sockets,
             init, cmds, loop, lastFrame, sd, auxVars>>

agentVars == <<ns, turn, env, tools, log>>

\* --------------------------------------------------------------- helpers
\* The process has not called process.exit.
Alive == sd.phase # "exited"

\* wss and httpServer have not been closed: requests are still accepted.
Listening == sd.phase = "running"

InReg(c) == \E i \in 1..Len(activeCalls) : activeCalls[i] = c

RegDelete(reg, c) == SelectSeq(reg, LAMBDA x : x # c)

NewCallState ==
  [callControlId |-> 0, ws |-> 0, streamSid |-> 0, streamingReady |-> FALSE,
   hungUp |-> FALSE, sttSession |-> FALSE, sttWaiter |-> 0,
   nova |-> "none", transcript |-> FALSE, turnResolve |-> 0,
   claudeBrain |-> FALSE, loopRunning |-> FALSE]

\* ws.readyState === WebSocket.OPEN for the socket held in state.ws
WsOpen(c) == cs[c].ws # 0 /\ sockets[cs[c].ws].open

\* NovaSonicSessionImpl.active: set by connect(), cleared by close() and by
\* a failed connect().
AgentActive(c) == cs[c].nova \in {"connecting", "active", "broken"}

\* webhook-security.ts
ValidateWebSocketToken(expected, provided) == expected = provided

ValidateTwilioSignature(sig) == sig = "valid"

ValidateTelnyxSignature(sig) == sig = "valid"

\* The outcomes of resolveUrls, as the three facts the manager reads:
\* usingNgrok, publicUrl !== wsUrl, and whether the wsUrl host is an ngrok
\* domain.
ResolveUrls ==
  \* both URLs given explicitly
  { [usingNgrok |-> FALSE, urlsDiffer |-> d, wsNgrokHost |-> h] :
      d \in BOOLEAN, h \in BOOLEAN }
  \cup
  \* webhook URL given, ngrok tunnel for the WebSocket
  { [usingNgrok |-> TRUE, urlsDiffer |-> TRUE, wsNgrokHost |-> TRUE] }
  \cup
  \* ngrok tunnel for both
  { [usingNgrok |-> TRUE, urlsDiffer |-> FALSE, wsNgrokHost |-> TRUE] }

\* loadProviderConfig: the phone provider and TTC_TELNYX_PUBLIC_KEY (set or not;
\* a Twilio deployment has none).
PhoneConfigs ==
  { [carrier |-> "twilio", telnyxKey |-> FALSE],
    [carrier |-> "telnyx", telnyxKey |-> FALSE],
    [carrier |-> "telnyx", telnyxKey |-> TRUE] }

Configs ==
  { [usingNgrok |-> u.usingNgrok, urlsDiffer |-> u.urlsDiffer,
     wsNgrokHost |-> u.wsNgrokHost, novaMode |-> n, carrier |-> p.carrier,
     telnyxKey |-> p.telnyxKey] :
      u \in ResolveUrls, n \in BOOLEAN, p \in PhoneConfigs }

\* The deployments that differ in what the handlers read outside signature
\* verification: the voice mode, the carrier and the wsUrl host.  They are
\* the ngrok tunnel for both URLs and one explicit URL for both, with the
\* public key set on carrier B.
CoreConfigs ==
  { cfg \in Configs : /\ ~cfg.urlsDiffer
                      /\ cfg.usingNgrok = cfg.wsNgrokHost
                      /\ cfg.telnyxKey = (cfg.carrier = "telnyx") }

NoFrame == [call |-> 0, sid |-> 0, ready |-> FALSE, src |-> "none"]

\* The callers of the brain of a session: its conversation loop and a
\* Driver command.
Callers == {"loop", "cmd"}

\* A ClaudeResponse; text 0 is the empty string.  content says whether the
\* Converse output carried a message.
NoResponse == [stopReason |-> "none", toolUse |-> << >>, text |-> 0, content |-> FALSE]

\* A caller that is not in the brain.
NoTask == [pc |-> "idle", op |-> "none", k |-> 0, response |-> NoResponse,
           pending |-> {}, results |-> << >>, calls |-> << >>, spoken |-> << >>]

\* No buffer of samples in hand.
NoSamples == [input |-> << >>, split |-> << >>, unified |-> << >>, done |-> {}]

\* A Buffer of a byte stream, as the range [lo, hi) of the stream positions
\* of the bytes it holds.  Buffer.alloc(0) holds nothing.
EmptyBuf == [lo |-> 0, hi |-> 0]

\* The state after construction of the CallManager, for a deployment of cfgs.
Boot(cfgs) ==
  /\ config \in cfgs
  /\ currentCallId = 0
  /\ activeCalls = << >>
  /\ cs = [c \in CallIds |-> NewCallState]
  /\ ccIndex = {}
  /\ tokIndex = {}
  /\ sockets = << >>
  /\ init = [c \in CallIds |-> [pc |-> "none", result |-> "none", missed |-> 0]]
  /\ cmds = << >>
  /\ loop = [c \in CallIds |-> "off"]
  /\ lastFrame = NoFrame
  /\ sd = [phase |-> "running", ends |-> [c \in CallIds |-> "none"], handed |-> {}]
  /\ ns = [active |-> FALSE, connected |-> FALSE, closeRequested |-> FALSE,
           modelSpeaking |-> FALSE, controlQueue |-> << >>, audioQueue |-> << >>,
           blocked |-> FALSE, woken |-> FALSE, done |-> FALSE, stamp |-> 0,
           pendingToolUse |-> [toolUseId |-> 0, toolName |-> "", content |-> << >>]]
  /\ turn = [transcript |-> << >>, resolve |-> FALSE, since |-> << >>]
  /\ env = [audio |-> 0, texts |-> 0, blocks |-> 0, open |-> {},
            kind |-> [b \in 1..MaxBlocks |-> "none"], speaker |-> 0,
            chunks |-> [b \in 1..MaxBlocks |-> << >>], heard |-> 0, waits |-> 0,
            connects |-> 0]
  /\ tools = {}
  /\ log = [delivered |-> [kind |-> "none", id |-> 0, text |-> << >>, n |-> 0,
                           speaking |-> FALSE],
            sent |-> << >>, dispatched |-> << >>, resolved |-> << >>]
  /\ tts = [pc |-> "idle", pendingPcm |-> EmptyBuf, pendingMuLaw |-> EmptyBuf,
            playbackStarted |-> FALSE, ended |-> FALSE, chunks |-> 0,
            produced |-> 0, frames |-> << >>]
  /\ stt = [created |-> FALSE, silenceDurationMs |-> 0, connected |-> FALSE,
            chunks |-> 0, isSpeaking |-> FALSE, silenceStartMs |-> 0,
            speechStarted |-> FALSE, speechStartTime |-> 0,
            transcribing |-> FALSE, now |-> 0, inFlight |-> 0,
            speechMs |-> 0, quietMs |-> 0, posts |-> << >>, settled |-> "none"]
  /\ brain = [messages |-> << >>, n |-> 0, task |-> [who \in Callers |-> NoTask]]

Init == Boot(CoreConfigs) /\ dsp = NoSamples

InitDeploy == Boot(Configs) /\ dsp = NoSamples

\* ------------------------------------------------ pieces of the handlers
\* NovaSonicSession.close(): a no-op unless active.  "broken" is a session
\* whose response stream ended while it was active, "ended" a closed session
\* whose response stream is over.
AgentClose(st) == IF st.nova \in {"connecting", "active"}
                  THEN [st EXCEPT !.nova = "closed"]
                  ELSE IF st.nova = "broken"
                  THEN [st EXCEPT !.nova = "ended"] ELSE st

\* sttSession?.close(): drops the pending transcript callback.
SttClose(st) == IF st.sttSession THEN [st EXCEPT !.sttWaiter = 0] ELSE st

\* The registry after the catch block of initiateCall.
CatchRegistryKeep(reg, c) == reg

CatchRegistry(reg, c) == RegDelete(reg, c)

\* The CallState after the catch block of initiateCall.
CatchState(st) == [SttClose(AgentClose(st)) EXCEPT !.loopRunning = FALSE]

\* The test of the 100 ms hang-up poll of a turn wait.
HangupCheckNever(c) == FALSE

HangupCheck(c) == cs[c].hungUp

\* The test of the 100 ms poll of waitForHangup, which listen races against
\* the transcript.
WaitForHangup(c) == cs[c].hungUp

\* The hang-up test of the wait a task is in: "waiting" is waitForUserSpeech,
\* "listening" is listen.
HangupDetected(c, pc) == IF pc = "waiting" THEN HangupCheck(c) ELSE WaitForHangup(c)

\* The readiness test of one waitForConnection poll.
ConnectionReadyWsOnly(c) == InReg(c) /\ WsOpen(c)

ConnectionReady(c) ==
  /\ InReg(c)
  /\ WsOpen(c)
  /\ (cs[c].streamSid # 0 \/ cs[c].streamingReady)

\* sendMediaChunk: nothing is written unless the socket is open; the frame
\* carries streamSid only if one was captured.  ready records whether the
\* carrier had acknowledged streaming at send time.
SendMediaChunk(c, src) ==
  IF WsOpen(c)
  THEN [call |-> c, sid |-> cs[c].streamSid,
        ready |-> (cs[c].streamSid # 0 \/ cs[c].streamingReady), src |-> src]
  ELSE NoFrame

\* ------------------------------------------------------ initiateCall
\* initiateCall up to its first await.
InitiateCall ==
  /\ Alive
  /\ currentCallId < MaxCalls
  /\ LET c == currentCallId + 1 IN
       /\ currentCallId' = c
       /\ activeCalls' = Append(activeCalls, c)
       /\ cs' = [cs EXCEPT ![c] = NewCallState]
       /\ init' = [init EXCEPT ![c].pc =
                     IF config.novaMode THEN "placing" ELSE "sttConnect"]
  /\ UNCHANGED <<auxVars, agentVars, sd, config, ccIndex, tokIndex, sockets, cmds, loop>>
  /\ lastFrame' = NoFrame

\* The catch block of initiateCall, entered with error err.
InitCatch(c, st, err) ==
  /\ cs' = [cs EXCEPT ![c] = CatchState(st)]
  /\ activeCalls' = CatchRegistry(activeCalls, c)
  /\ init' = [init EXCEPT ![c].pc = "done", ![c].result = err]

\* Split mode: await sttSession.connect() returns or throws.
SttConnect(c) ==
  /\ Alive
  /\ init[c].pc = "sttConnect"
  /\ \/ /\ cs' = [cs EXCEPT ![c].sttSession = TRUE, ![c].claudeBrain = TRUE]
        /\ init' = [init EXCEPT ![c].pc = "placing"]
        /\ UNCHANGED activeCalls
     \/ InitCatch(c, cs[c], "error")
  /\ UNCHANGED <<auxVars, agentVars, sd, config, currentCallId, ccIndex, tokIndex, sockets, cmds, loop>>
  /\ lastFrame' = NoFrame

\* await providers.phone.initiateCall(...) returns the carrier ref or throws.
PlaceOutbound(c) ==
  /\ Alive
  /\ init[c].pc = "placing"
  /\ \/ /\ cs' = [cs EXCEPT ![c].callControlId = c]
        /\ ccIndex' = ccIndex \cup {c}
        /\ tokIndex' = tokIndex \cup {c}
        /\ init' = [init EXCEPT ![c].pc = "connecting"]
        /\ UNCHANGED activeCalls
     \/ /\ InitCatch(c, cs[c], "error")
        /\ UNCHANGED <<ccIndex, tokIndex>>
  /\ UNCHANGED <<auxVars, agentVars, sd, config, currentCallId, sockets, cmds, loop>>
  /\ lastFrame' = NoFrame

\* A waitForConnection poll that finds the media stream ready.  Unified mode
\* goes on to setupNovaSonicSession up to the await in connect(); split mode
\* goes on to the greeting.
WaitForConnection(c) ==
  /\ Alive
  /\ init[c].pc = "connecting"
  /\ ConnectionReady(c)
  /\ IF config.novaMode
     THEN /\ cs' = [cs EXCEPT ![c].nova = "connecting"]
          /\ init' = [init EXCEPT ![c].pc = "agentConnect"]
     ELSE /\ init' = [init EXCEPT ![c].pc = "greeting"]
          /\ UNCHANGED cs
  /\ UNCHANGED <<auxVars, agentVars, sd, config, currentCallId, activeCalls, ccIndex, tokIndex, sockets,
                 cmds, loop>>
  /\ lastFrame' = NoFrame

\* waitForConnection gives up after 15 s of polls that found nothing ready.
WaitForConnectionTimeout(c) ==
  /\ Alive
  /\ init[c].pc = "connecting"
  /\ ~ConnectionReady(c)
  /\ InitCatch(c, cs[c], "timeout")
  /\ UNCHANGED <<auxVars, agentVars, sd, config, currentCallId, ccIndex, tokIndex, sockets, cmds, loop>>
  /\ lastFrame' = NoFrame

\* waitForUserSpeech up to the creation of its timers: the accumulators are
\* reset and the resolve callback of task w replaces whatever was there.
WaitForUserSpeech(st, w) == [st EXCEPT !.transcript = FALSE, !.turnResolve = w]

\* Unified mode: session.connect() returns or throws; on return initiateCall
\* starts waiting for the user's turn.
AgentConnect(c) ==
  /\ Alive
  /\ init[c].pc = "agentConnect"
  /\ \/ /\ cs' = [cs EXCEPT ![c] = WaitForUserSpeech(
                     [@ EXCEPT !.nova = IF @ = "connecting" THEN "active" ELSE @],
                     InitW)]
        /\ init' = [init EXCEPT ![c].pc = "waiting"]
        /\ UNCHANGED activeCalls
     \/ InitCatch(c, [cs[c] EXCEPT !.nova = IF @ = "connecting" THEN "failed" ELSE @],
                  "error")
  /\ UNCHANGED <<auxVars, agentVars, sd, config, currentCallId, ccIndex, tokIndex, sockets, cmds, loop>>
  /\ lastFrame' = NoFrame

\* listen up to the race: waitForTranscript installs the callback of task w
\* in the STT session, replacing whatever was there.
Listen(st, w) == [st EXCEPT !.sttWaiter = w]

\* Split mode: claudeRespondAndSpeak(state, message) returns or throws (brain
\* or TTS error).  On return the conversation loop is started and
\* initiateCall listens for the first user response.
Greeting(c) ==
  /\ Alive
  /\ init[c].pc = "greeting"
  /\ \/ /\ lastFrame' = SendMediaChunk(c, "init")
        /\ cs' = [cs EXCEPT ![c] = Listen([@ EXCEPT !.loopRunning = TRUE], InitW)]
        /\ loop' = [loop EXCEPT ![c] = "delay"]
        /\ init' = [init EXCEPT ![c].pc = "listening"]
        /\ UNCHANGED activeCalls
     \/ /\ InitCatch(c, cs[c], "error")
        /\ lastFrame' = NoFrame
        /\ UNCHANGED loop
  /\ UNCHANGED <<auxVars, agentVars, sd, config, currentCallId, ccIndex, tokIndex, sockets, cmds>>

\* One 100 ms tick of the hang-up poll of initiateCall's turn wait.  missed
\* counts the ticks that fired with hungUp set and left the wait pending.
InitPoll(c) ==
  /\ Alive
  /\ init[c].pc \in {"waiting", "listening"}
  /\ cs[c].hungUp
  /\ IF HangupDetected(c, init[c].pc)
     THEN InitCatch(c, IF init[c].pc = "waiting"
                       THEN [cs[c] EXCEPT !.turnResolve = 0] ELSE cs[c], "hangup")
     ELSE /\ init[c].missed < 2
          /\ init' = [init EXCEPT ![c].missed = @ + 1]
          /\ UNCHANGED <<cs, activeCalls>>
  /\ UNCHANGED <<auxVars, agentVars, sd, config, currentCallId, ccIndex, tokIndex, sockets, cmds, loop>>
  /\ lastFrame' = NoFrame

\* The CallState after the timeout of a turn wait fired: the callback of
\* the wait is dropped (novaSonicTurnResolve, or the STT session's
\* onTranscriptCallback), nothing else is touched.
TimeoutStateClosing(st, pc) == AgentClose(SttClose(st))

TimeoutState(st, pc) ==
  IF pc = "waiting" THEN [st EXCEPT !.turnResolve = 0] ELSE [st EXCEPT !.sttWaiter = 0]

\* The turn timeout (transcriptTimeoutMs) of initiateCall's wait fires.
InitTurnTimeout(c) ==
  /\ Alive
  /\ init[c].pc \in {"waiting", "listening"}
  /\ InitCatch(c, TimeoutState(cs[c], init[c].pc), "timeout")
  /\ UNCHANGED <<auxVars, agentVars, sd, config, currentCallId, ccIndex, tokIndex, sockets, cmds, loop>>
  /\ lastFrame' = NoFrame

\* ------------------------------------------------ runConversationLoop
\* The test of the while loop followed by listen, or the exit of the loop.
LoopHead(st) ==
  IF st.loopRunning /\ ~st.hungUp
  THEN [st |-> Listen(st, LoopW), pc |-> "listening"]
  ELSE [st |-> [st EXCEPT !.loopRunning = FALSE], pc |-> "stopped"]

\* The exit of the loop by break.
LoopBreak(st) == [st |-> [st EXCEPT !.loopRunning = FALSE], pc |-> "stopped"]

\* The 500 ms start delay is over.
LoopStart(c) ==
  /\ Alive
  /\ loop[c] = "delay"
  /\ LET n == LoopHead(cs[c]) IN
       /\ cs' = [cs EXCEPT ![c] = n.st]
       /\ loop' = [loop EXCEPT ![c] = n.pc]
  /\ UNCHANGED <<auxVars, agentVars, sd, config, currentCallId, activeCalls, ccIndex, tokIndex, sockets,
                 init, cmds>>
  /\ lastFrame' = NoFrame

\* claudeRespondAndSpeak of a loop turn returns, or throws: the loop breaks
\* if the call is hung up and retries after 1 s otherwise.
LoopSpeak(c) ==
  /\ Alive
  /\ loop[c] = "speaking"
  /\ \/ /\ lastFrame' = SendMediaChunk(c, "loop")
        /\ LET n == LoopHead(cs[c]) IN
             /\ cs' = [cs EXCEPT ![c] = n.st]
             /\ loop' = [loop EXCEPT ![c] = n.pc]
     \/ /\ LET n == IF cs[c].hungUp THEN LoopBreak(cs[c]) ELSE LoopHead(cs[c]) IN
             /\ cs' = [cs EXCEPT ![c] = n.st]
             /\ loop' = [loop EXCEPT ![c] = n.pc]
        /\ lastFrame' = NoFrame
  /\ UNCHANGED <<auxVars, agentVars, sd, config, currentCallId, activeCalls, ccIndex, tokIndex, sockets,
                 init, cmds>>

\* The hang-up poll of the loop's listen fires with hungUp set: listen throws
\* and the loop breaks.
LoopPoll(c) ==
  /\ Alive
  /\ loop[c] = "listening"
  /\ WaitForHangup(c)
  /\ LET n == LoopBreak(cs[c]) IN
       /\ cs' = [cs EXCEPT ![c] = n.st]
       /\ loop' = [loop EXCEPT ![c] = n.pc]
  /\ UNCHANGED <<auxVars, agentVars, sd, config, currentCallId, activeCalls, ccIndex, tokIndex, sockets,
                 init, cmds>>
  /\ lastFrame' = NoFrame

\* The transcript timeout of the loop's listen fires: the loop breaks.
LoopTimeout(c) ==
  /\ Alive
  /\ loop[c] = "listening"
  /\ LET n == LoopBreak([cs[c] EXCEPT !.sttWaiter = 0]) IN
       /\ cs' = [cs EXCEPT ![c] = n.st]
       /\ loop' = [loop EXCEPT ![c] = n.pc]
  /\ UNCHANGED <<auxVars, agentVars, sd, config, currentCallId, activeCalls, ccIndex, tokIndex, sockets,
                 init, cmds>>
  /\ lastFrame' = NoFrame

\* ------------------------------------------------------ Driver commands
\* The session is in READY or a substate: the media stream is connected, the
\* agent or pipeline is set up, and the call is neither hung up nor ended.
SessionReady(c) ==
  /\ InReg(c)
  /\ ~cs[c].hungUp
  /\ init[c].pc \in {"waiting", "listening", "done"}

\* speak: the TTS audio of a message goes out through sendMediaChunk.  The
\* TTS provider of unified mode is a stub that synthesizes nothing.
Speak(c, src) == IF config.novaMode THEN NoFrame ELSE SendMediaChunk(c, src)

NewCmd(kind, c, pc, result) ==
  [kind |-> kind, call |-> c, pc |-> pc, result |-> result, missed |-> 0,
   agent |-> cs[c].nova # "none"]

\* A command that names a call id with no entry in activeCalls.
NoActiveCall(kind, c) ==
  /\ ~InReg(c)
  /\ cmds' = Append(cmds, NewCmd(kind, c, "done", "nocall"))
  /\ UNCHANGED <<cs, activeCalls>>

\* continueCall up to its first await.
ContinueCall(c) ==
  /\ Alive
  /\ Len(cmds) < MaxCmds
  /\ \/ NoActiveCall("continue", c)
     \/ /\ InReg(c)
        /\ IF cs[c].nova # "none"
           THEN /\ cmds' = Append(cmds, NewCmd("continue", c, "waiting", "none"))
                /\ cs' = [cs EXCEPT ![c] = WaitForUserSpeech(@, Len(cmds) + 1)]
           ELSE /\ cmds' = Append(cmds, NewCmd("continue", c, "speaking", "none"))
                /\ UNCHANGED cs
        /\ UNCHANGED activeCalls
  /\ UNCHANGED <<auxVars, agentVars, sd, config, currentCallId, ccIndex, tokIndex, sockets, init, loop>>
  /\ lastFrame' = NoFrame

\* speakOnly up to its first await, or to its end in unified mode.
SpeakOnly(c) ==
  /\ Alive
  /\ Len(cmds) < MaxCmds
  /\ \/ NoActiveCall("speak", c)
     \/ /\ InReg(c)
        /\ cmds' = Append(cmds,
                      IF cs[c].nova # "none"
                      THEN NewCmd("speak", c, "done", "ok")
                      ELSE NewCmd("speak", c, "speaking", "none"))
        /\ UNCHANGED <<cs, activeCalls>>
  /\ UNCHANGED <<auxVars, agentVars, sd, config, currentCallId, ccIndex, tokIndex, sockets, init, loop>>
  /\ lastFrame' = NoFrame

\* endCall up to its first await.
EndCall(c) ==
  /\ Alive
  /\ Len(cmds) < MaxCmds
  /\ \/ NoActiveCall("end", c)
     \/ /\ InReg(c)
        /\ cs' = [cs EXCEPT ![c].loopRunning = FALSE]
        /\ cmds' = Append(cmds,
                      IF cs[c].nova # "none"
                      THEN NewCmd("end", c, "draining", "none")
                      ELSE NewCmd("end", c, "speaking", "none"))
        /\ UNCHANGED activeCalls
  /\ UNCHANGED <<auxVars, agentVars, sd, config, currentCallId, ccIndex, tokIndex, sockets, init, loop>>
  /\ lastFrame' = NoFrame

\* The speak (or claudeRespondAndSpeak) a command is awaiting returns or
\* throws.  continueCall goes on to listen, which throws at once without an
\* STT session; endCall goes on to its drain delay.
CmdSpeak(w) ==
  /\ Alive
  /\ w \in 1..Len(cmds)
  /\ cmds[w].pc = "speaking"
  /\ LET c == cmds[w].call
         m == cmds[w] IN
       \/ /\ lastFrame' = Speak(c, "cmd")
          /\ IF m.kind = "continue" /\ cs[c].sttSession
             THEN /\ cs' = [cs EXCEPT ![c] = Listen(@, w)]
                  /\ cmds' = [cmds EXCEPT ![w] = [m EXCEPT !.pc = "listening"]]
             ELSE /\ cmds' = [cmds EXCEPT ![w] =
                       IF m.kind = "continue"
                       THEN [m EXCEPT !.pc = "done", !.result = "error"]
                       ELSE IF m.kind = "speak"
                       THEN [m EXCEPT !.pc = "done", !.result = "ok"]
                       ELSE [m EXCEPT !.pc = "draining"]]
                  /\ UNCHANGED cs
       \/ /\ ~config.novaMode
          /\ cmds' = [cmds EXCEPT ![w] = [m EXCEPT !.pc = "done", !.result = "error"]]
          /\ UNCHANGED <<cs>>
          /\ lastFrame' = NoFrame
  /\ UNCHANGED <<auxVars, agentVars, sd, config, currentCallId, activeCalls, ccIndex, tokIndex, sockets,
                 init, loop>>

\* One 100 ms tick of the hang-up poll of a command's turn wait.
CmdPoll(w) ==
  /\ Alive
  /\ w \in 1..Len(cmds)
  /\ cmds[w].pc \in {"waiting", "listening"}
  /\ LET c == cmds[w].call IN
       /\ cs[c].hungUp
       /\ IF HangupDetected(c, cmds[w].pc)
          THEN /\ cmds' = [cmds EXCEPT ![w].pc = "done", ![w].result = "hangup"]
               /\ cs' = IF cmds[w].pc = "waiting"
                         THEN [cs EXCEPT ![c].turnResolve = 0] ELSE cs
          ELSE /\ cmds[w].missed < 2
               /\ cmds' = [cmds EXCEPT ![w].missed = @ + 1]
               /\ UNCHANGED cs
  /\ UNCHANGED <<auxVars, agentVars, sd, config, currentCallId, activeCalls, ccIndex, tokIndex, sockets,
                 init, loop>>
  /\ lastFrame' = NoFrame

\* The turn timeout of a command's wait fires.
CmdTurnTimeout(w) ==
  /\ Alive
  /\ w \in 1..Len(cmds)
  /\ cmds[w].pc \in {"waiting", "listening"}
  /\ LET c == cmds[w].call IN
       cs' = [cs EXCEPT ![c] = TimeoutState(@, cmds[w].pc)]
  /\ cmds' = [cmds EXCEPT ![w].pc = "done", ![w].result = "timeout"]
  /\ UNCHANGED <<auxVars, agentVars, sd, config, currentCallId, activeCalls, ccIndex, tokIndex, sockets,
                 init, loop>>
  /\ lastFrame' = NoFrame

\* The tool handler returns the result or the error of a finished command
\* to the Driver: the invocation is over.  (Invocations are retired last
\* first.)
CmdReturn(w) ==
  /\ Alive
  /\ w = Len(cmds)
  /\ w > 0
  /\ cmds[w].pc = "done"
  /\ cmds' = SubSeq(cmds, 1, w - 1)
  /\ UNCHANGED <<auxVars, agentVars, sd, config, currentCallId, activeCalls, cs, ccIndex, tokIndex, sockets,
                 init, loop>>
  /\ lastFrame' = NoFrame

\* ws?.close() on the socket held by a CallState.
CloseWs(socks, st) ==
  IF st.ws # 0 THEN [socks EXCEPT ![st.ws].open = FALSE] ELSE socks

\* The index clean-up at the end of endCall.
EndTokIndex(idx, c) == idx \ {c}

EndCcIndex(idx, st) == IF st.callControlId # 0 THEN idx \ {st.callControlId} ELSE idx

\* endCall from "Close sessions and clean up mappings" to its return.
EndCleanup(w, st) ==
  LET c == cmds[w].call IN
    /\ cs' = [cs EXCEPT ![c] = [SttClose(st) EXCEPT !.hungUp = TRUE]]
    /\ sockets' = CloseWs(sockets, cs[c])
    /\ tokIndex' = EndTokIndex(tokIndex, c)
    /\ ccIndex' = EndCcIndex(ccIndex, cs[c])
    /\ activeCalls' = RegDelete(activeCalls, c)
    /\ cmds' = [cmds EXCEPT ![w].pc = "done", ![w].result = "ok"]

\* The drain delay of endCall is over: the agent session is closed (unified
\* branch) and the carrier hangup is requested if the carrier ref is known;
\* without a ref endCall goes straight to the clean-up.
EndDrained(w) ==
  /\ Alive
  /\ w \in 1..Len(cmds)
  /\ cmds[w].pc = "draining"
  /\ LET c == cmds[w].call
         st == IF cmds[w].agent THEN AgentClose(cs[c]) ELSE cs[c] IN
       IF cs[c].callControlId # 0
       THEN /\ cs' = [cs EXCEPT ![c] = st]
            /\ cmds' = [cmds EXCEPT ![w].pc = "hangup"]
            /\ UNCHANGED <<sockets, tokIndex, ccIndex, activeCalls>>
       ELSE EndCleanup(w, st)
  /\ UNCHANGED <<auxVars, agentVars, sd, config, currentCallId, init, loop>>
  /\ lastFrame' = NoFrame

\* await providers.phone.hangup(...) returns or throws.
EndHangup(w) ==
  /\ Alive
  /\ w \in 1..Len(cmds)
  /\ cmds[w].pc = "hangup"
  /\ \/ EndCleanup(w, cs[cmds[w].call])
     \/ /\ cmds' = [cmds EXCEPT ![w].pc = "done", ![w].result = "error"]
        /\ UNCHANGED <<cs, sockets, tokIndex, ccIndex, activeCalls>>
  /\ UNCHANGED <<auxVars, agentVars, sd, config, currentCallId, init, loop>>
  /\ lastFrame' = NoFrame

\* ------------------------------------------------ agent and STT events
\* The agent's response stream is being read.
AgentStreaming(c) == cs[c].nova \in {"active", "closed"}

\* processResponseStream leaves its loop: a modelStreamErrorException, an
\* internalServerException or the end of the response stream.  Only
\* connected is cleared; the manager is not told.
AgentStreamEnd(c) ==
  /\ Alive
  /\ AgentStreaming(c)
  /\ cs' = [cs EXCEPT ![c].nova = IF @ = "active" THEN "broken" ELSE "ended"]
  /\ UNCHANGED <<auxVars, agentVars, sd, config, currentCallId, activeCalls, ccIndex, tokIndex, sockets,
                 init, cmds, loop>>
  /\ lastFrame' = NoFrame

\* textOutput with role USER: the text is appended to novaSonicTranscript.
TextOutputUser(c) ==
  /\ Alive
  /\ AgentStreaming(c)
  /\ ~cs[c].transcript
  /\ cs' = [cs EXCEPT ![c].transcript = TRUE]
  /\ UNCHANGED <<auxVars, agentVars, sd, config, currentCallId, activeCalls, ccIndex, tokIndex, sockets,
                 init, cmds, loop>>
  /\ lastFrame' = NoFrame

\* completionEnd: onTurnComplete resolves the pending turn wait if there is
\* one and user text was accumulated.
CompletionEnd(c) ==
  /\ Alive
  /\ AgentStreaming(c)
  /\ cs[c].turnResolve # 0
  /\ cs[c].transcript
  /\ cs' = [cs EXCEPT ![c].turnResolve = 0, ![c].transcript = FALSE]
  /\ IF cs[c].turnResolve = InitW
     THEN /\ init' = [init EXCEPT ![c].pc = "done", ![c].result = "ok"]
          /\ UNCHANGED cmds
     ELSE /\ cmds' = [cmds EXCEPT ![cs[c].turnResolve].pc = "done",
                                  ![cs[c].turnResolve].result = "ok"]
          /\ UNCHANGED init
  /\ UNCHANGED <<auxVars, agentVars, sd, config, currentCallId, activeCalls, ccIndex, tokIndex, sockets,
                 loop>>
  /\ lastFrame' = NoFrame

\* audioOutput: the onAudioOutput callback writes the audio to the carrier.
AudioOutput(c) ==
  /\ Alive
  /\ AgentStreaming(c)
  /\ lastFrame' = SendMediaChunk(c, "agent")
  /\ UNCHANGED <<auxVars, agentVars, sd, config, currentCallId, activeCalls, cs, ccIndex, tokIndex, sockets,
                 init, cmds, loop>>

\* The frame the onInterruption hook writes: a clear directive, only on an
\* open socket of a call whose streamSid was captured.
ClearFrame(c) ==
  IF WsOpen(c) /\ cs[c].streamSid # 0
  THEN [call |-> c, sid |-> cs[c].streamSid, ready |-> TRUE, src |-> "clear"]
  ELSE NoFrame

\* contentEnd with stopReason INTERRUPTED: the session calls the
\* onInterruption hook of the manager.
Interruption(c) ==
  /\ Alive
  /\ AgentStreaming(c)
  /\ lastFrame' = ClearFrame(c)
  /\ UNCHANGED <<auxVars, agentVars, sd, config, currentCallId, activeCalls, cs, ccIndex, tokIndex, sockets,
                 init, cmds, loop>>

\* The STT session emits a transcript to the installed callback.  The task
\* whose listen is resumed throws if the call is hung up by then; the callback
\* of a listen that already ended resumes nobody.
SttTranscript(c) ==
  /\ Alive
  /\ cs[c].sttSession
  /\ cs[c].sttWaiter # 0
  /\ LET w == cs[c].sttWaiter
         st == [cs[c] EXCEPT !.sttWaiter = 0] IN
       IF w = InitW
       THEN /\ IF init[c].pc # "listening"
               THEN /\ cs' = [cs EXCEPT ![c] = st]
                    /\ UNCHANGED <<init, activeCalls>>
               ELSE IF st.hungUp
               THEN InitCatch(c, st, "hangup")
               ELSE /\ cs' = [cs EXCEPT ![c] = st]
                    /\ init' = [init EXCEPT ![c].pc = "done", ![c].result = "ok"]
                    /\ UNCHANGED activeCalls
            /\ UNCHANGED <<cmds, loop>>
       ELSE IF w = LoopW
       THEN /\ IF loop[c] # "listening"
               THEN /\ cs' = [cs EXCEPT ![c] = st]
                    /\ UNCHANGED loop
               ELSE IF st.hungUp
               THEN /\ cs' = [cs EXCEPT ![c] = LoopBreak(st).st]
                    /\ loop' = [loop EXCEPT ![c] = "stopped"]
               ELSE /\ cs' = [cs EXCEPT ![c] = st]
                    /\ loop' = [loop EXCEPT ![c] = "speaking"]
            /\ UNCHANGED <<init, cmds, activeCalls>>
       ELSE /\ cs' = [cs EXCEPT ![c] = st]
            /\ cmds' = IF w \notin 1..Len(cmds) \/ cmds[w].pc # "listening" THEN cmds
                        ELSE [cmds EXCEPT ![w].pc = "done",
                                ![w].result = IF st.hungUp THEN "hangup" ELSE "ok"]
            /\ UNCHANGED <<init, loop, activeCalls>>
  /\ UNCHANGED <<auxVars, agentVars, sd, config, currentCallId, ccIndex, tokIndex, sockets>>
  /\ lastFrame' = NoFrame

\* ------------------------------------------------------ carrier webhooks
\* The Twilio branch of handlePhoneWebhook proceeds without a valid
\* signature when this holds.
SkipValidation == config.usingNgrok \/ config.urlsDiffer

\* The call a webhook's carrier ref leads to: the index entry, then the
\* registry entry.  0 if either is missing.
HookCall(ref) == IF ref \in ccIndex /\ InReg(ref) THEN ref ELSE 0

\* state.hungUp = true
MarkHungUpSkip(st) == st

MarkHungUp(st) == [st EXCEPT !.hungUp = TRUE]

\* A terminal status or call.hangup for carrier ref: the index entry is
\* deleted, the session marked hung up and its socket closed.
HookHangup(ref) ==
  /\ ccIndex' = ccIndex \ {ref}
  /\ IF HookCall(ref) # 0
     THEN /\ cs' = [cs EXCEPT ![ref] = MarkHungUp(@)]
          /\ sockets' = CloseWs(sockets, cs[ref])
     ELSE UNCHANGED <<cs, sockets>>

\* The response of the Twilio branch: the status code and the connect
\* directive served (-1: none; else the token in its stream URL, 0 if it
\* carries none).
TwilioResponse(sig, ref, status) ==
  IF ~ValidateTwilioSignature(sig) /\ ~SkipValidation
  THEN [code |-> 401, directive |-> -1]
  ELSE IF status = "terminal"
  THEN [code |-> 200, directive |-> -1]
  ELSE [code |-> 200, directive |-> HookCall(ref)]

\* POST /twiml, form-encoded (carrier A).  status is "terminal" for
\* completed, busy, no-answer and failed, "progress" for ringing and
\* in-progress.  A deployment is sent the webhooks of the carrier it is
\* configured for, signed by the carrier or not.
TwilioWebhook(sig, ref, status) ==
  /\ Listening
  /\ config.carrier = "twilio"
  /\ IF ~ValidateTwilioSignature(sig) /\ ~SkipValidation
     THEN /\ UNCHANGED <<cs, ccIndex, sockets>>
     ELSE IF status = "terminal"
     THEN /\ HookHangup(ref)
     ELSE /\ UNCHANGED <<cs, ccIndex, sockets>>
  /\ UNCHANGED <<auxVars, agentVars, sd, config, currentCallId, activeCalls, tokIndex, init, cmds, loop>>
  /\ lastFrame' = NoFrame

\* The Telnyx branch of handlePhoneWebhook rejects a request: the signature
\* is verified only if a public key is configured.
TelnyxRejectsNever(sig) == FALSE

TelnyxRejects(sig) == config.telnyxKey /\ ~ValidateTelnyxSignature(sig)

\* The status code of the Telnyx branch.
TelnyxResponse(sig) == IF TelnyxRejects(sig) THEN 401 ELSE 200

\* POST /twiml, JSON (carrier B).  call.answered changes no CallState field.
TelnyxWebhook(sig, ref, event) ==
  /\ Listening
  /\ config.carrier = "telnyx"
  /\ IF TelnyxRejects(sig)
     THEN /\ UNCHANGED <<cs, ccIndex, sockets>>
     ELSE IF event = "call.hangup"
     THEN /\ HookHangup(ref)
     ELSE IF event = "streaming.started"
     THEN /\ cs' = IF HookCall(ref) # 0
                    THEN [cs EXCEPT ![ref].streamingReady = TRUE] ELSE cs
          /\ UNCHANGED <<ccIndex, sockets>>
     ELSE /\ UNCHANGED <<cs, ccIndex, sockets>>
  /\ UNCHANGED <<auxVars, agentVars, sd, config, currentCallId, activeCalls, tokIndex, init, cmds, loop>>
  /\ lastFrame' = NoFrame

\* ------------------------------------------------------ media WebSocket
\* The wsUrl host test of the upgrade handler's fallback.
IsNgrokWs == config.wsNgrokHost

\* The decision of the upgrade handler for a request presenting tok (0: no
\* token): the call id the socket is accepted for and by which path, or a
\* rejection.  A fallback with no active call accepts for a placeholder id
\* that names no session (call 0).
UpgradeDecision(tok) ==
  LET callId == IF tok # 0 /\ tok \in tokIndex THEN tok ELSE 0 IN
    IF tok # 0 /\ callId # 0
    THEN IF ~InReg(callId) \/ ~ValidateWebSocketToken(callId, tok)
         THEN [accept |-> FALSE, call |-> 0, how |-> "401"]
         ELSE [accept |-> TRUE, call |-> callId, how |-> "token"]
    ELSE IF IsNgrokWs
         THEN IF Len(activeCalls) > 0
              THEN [accept |-> TRUE, call |-> activeCalls[Len(activeCalls)],
                    how |-> "fallback"]
              ELSE [accept |-> TRUE, call |-> 0, how |-> "placeholder"]
         ELSE [accept |-> FALSE, call |-> 0, how |-> "401"]

\* GET /media-stream upgrade, accepted: the connection handler binds the
\* socket to the CallState of the call id, if there is one.
Upgrade(tok) ==
  /\ Listening
  /\ Len(sockets) < MaxSockets
  /\ LET d == UpgradeDecision(tok) IN
       /\ d.accept
       /\ sockets' = Append(sockets, [call |-> d.call, how |-> d.how, open |-> TRUE])
       /\ cs' = IF d.call # 0 /\ InReg(d.call)
                 THEN [cs EXCEPT ![d.call].ws = Len(sockets) + 1] ELSE cs
  /\ UNCHANGED <<auxVars, agentVars, sd, config, currentCallId, activeCalls, ccIndex, tokIndex, init, cmds,
                 loop>>
  /\ lastFrame' = NoFrame

\* A carrier A "start" frame on socket i: its streamSid (written i, the
\* stream of that socket) is captured into the session the socket was
\* accepted for.  Carrier B frames carry no streamSid.
StartFrame(i) ==
  /\ Alive
  /\ i \in 1..Len(sockets)
  /\ sockets[i].open
  /\ config.carrier = "twilio"
  /\ sockets[i].call # 0 /\ InReg(sockets[i].call)
  /\ cs[sockets[i].call].streamSid # i
  /\ cs' = [cs EXCEPT ![sockets[i].call].streamSid = i]
  /\ UNCHANGED <<auxVars, agentVars, sd, config, currentCallId, activeCalls, ccIndex, tokIndex, sockets,
                 init, cmds, loop>>
  /\ lastFrame' = NoFrame

\* A "stop" frame on socket i marks the session hung up.
StopFrame(i) ==
  /\ Alive
  /\ i \in 1..Len(sockets)
  /\ sockets[i].open
  /\ sockets[i].call # 0 /\ InReg(sockets[i].call)
  /\ ~cs[sockets[i].call].hungUp
  /\ cs' = [cs EXCEPT ![sockets[i].call].hungUp = TRUE]
  /\ UNCHANGED <<auxVars, agentVars, sd, config, currentCallId, activeCalls, ccIndex, tokIndex, sockets,
                 init, cmds, loop>>
  /\ lastFrame' = NoFrame

\* The carrier closes socket i.
WsClose(i) ==
  /\ Alive
  /\ i \in 1..Len(sockets)
  /\ sockets[i].open
  /\ sockets' = [sockets EXCEPT ![i].open = FALSE]
  /\ UNCHANGED <<auxVars, agentVars, sd, config, currentCallId, activeCalls, cs, ccIndex, tokIndex, init,
                 cmds, loop>>
  /\ lastFrame' = NoFrame

\* --------------------------------------------------- termination signal
\* novaSonicSession?.close() at the head of each iteration of shutdown.
ShutdownAgent(st) == AgentClose(st)

\* sendText on a NovaSonicSession: dropped unless the session is active.
SendTextAccepted(st) == st.nova \in {"connecting", "active", "broken"}

\* endCall as called by shutdown, up to its first await, on the state the
\* iteration has reached.
ShutdownEndCall(st) == [st EXCEPT !.loopRunning = FALSE]

\* The SIGINT/SIGTERM handler up to its first await: CallManager.shutdown
\* runs to its end (each session in the registry: agent close, then an
\* endCall that is not awaited; then wss and httpServer are closed), and
\* without an ngrok tunnel process.exit follows with no await in between.
Shutdown ==
  /\ sd.phase = "running"
  /\ LET reg == {c \in CallIds : InReg(c)}
         after == [c \in CallIds |->
                     IF c \in reg THEN ShutdownAgent(cs[c]) ELSE cs[c]] IN
       /\ cs' = [c \in CallIds |->
                   IF c \in reg THEN ShutdownEndCall(after[c]) ELSE cs[c]]
       /\ sd' = [phase |-> IF config.usingNgrok THEN "stopping" ELSE "exited",
                 ends |-> [c \in CallIds |->
                             IF c \notin reg THEN "none"
                             ELSE IF cs[c].nova # "none" THEN "draining"
                             ELSE "speaking"],
                 handed |-> {c \in reg : cs[c].nova # "none"
                                          /\ SendTextAccepted(after[c])}]
  /\ UNCHANGED <<auxVars, agentVars, config, currentCallId, activeCalls, ccIndex, tokIndex, sockets,
                 init, cmds, loop>>
  /\ lastFrame' = NoFrame

\* await stopNgrok() returns and the handler calls process.exit(0).
Exit ==
  /\ sd.phase = "stopping"
  /\ sd' = [sd EXCEPT !.phase = "exited"]
  /\ UNCHANGED <<auxVars, agentVars, config, currentCallId, activeCalls, cs, ccIndex, tokIndex,
                 sockets, init, cmds, loop>>
  /\ lastFrame' = NoFrame

\* The speak awaited by a shutdown endCall (split mode) returns or throws.
ShutdownSpeak(c) ==
  /\ Alive
  /\ sd.ends[c] = "speaking"
  /\ \/ /\ lastFrame' = Speak(c, "cmd")
        /\ sd' = [sd EXCEPT !.ends[c] = "draining", !.handed = @ \cup {c}]
     \/ /\ lastFrame' = NoFrame
        /\ sd' = [sd EXCEPT !.ends[c] = "failed"]
  /\ UNCHANGED <<auxVars, agentVars, config, currentCallId, activeCalls, cs, ccIndex, tokIndex,
                 sockets, init, cmds, loop>>

\* A shutdown endCall from "Close sessions and clean up mappings" on.
ShutdownCleanup(c, st) ==
  /\ cs' = [cs EXCEPT ![c] = [SttClose(st) EXCEPT !.hungUp = TRUE]]
  /\ sockets' = CloseWs(sockets, cs[c])
  /\ tokIndex' = EndTokIndex(tokIndex, c)
  /\ ccIndex' = EndCcIndex(ccIndex, cs[c])
  /\ activeCalls' = RegDelete(activeCalls, c)
  /\ sd' = [sd EXCEPT !.ends[c] = "done"]

\* The drain delay of a shutdown endCall is over.
ShutdownDrained(c) ==
  /\ Alive
  /\ sd.ends[c] = "draining"
  /\ LET st == IF cs[c].nova # "none" THEN AgentClose(cs[c]) ELSE cs[c] IN
       IF cs[c].callControlId # 0
       THEN /\ cs' = [cs EXCEPT ![c] = st]
            /\ sd' = [sd EXCEPT !.ends[c] = "hangup"]
            /\ UNCHANGED <<sockets, tokIndex, ccIndex, activeCalls>>
       ELSE ShutdownCleanup(c, st)
  /\ UNCHANGED <<auxVars, agentVars, config, currentCallId, init, cmds, loop>>
  /\ lastFrame' = NoFrame

\* The carrier hangup requested by a shutdown endCall returns or throws.
ShutdownHangup(c) ==
  /\ Alive
  /\ sd.ends[c] = "hangup"
  /\ \/ ShutdownCleanup(c, cs[c])
     \/ /\ sd' = [sd EXCEPT !.ends[c] = "failed"]
        /\ UNCHANGED <<cs, sockets, tokIndex, ccIndex, activeCalls>>
  /\ UNCHANGED <<auxVars, agentVars, config, currentCallId, init, cmds, loop>>
  /\ lastFrame' = NoFrame

\* ------------------------------------------- NovaSonicSession: outbound
\* An outbound event.  n is its position in the order of all enqueues of
\* the session; speaking records modelSpeaking at enqueue time.
OutEvent(s, kind, id, text) ==
  [kind |-> kind, id |-> id, text |-> text, n |-> s.stamp + 1,
   speaking |-> s.modelSpeaking]

NoEvent == [kind |-> "none", id |-> 0, text |-> << >>, n |-> 0, speaking |-> FALSE]

\* The observers of a step that delivers, dispatches and resolves nothing.
Quiet == [log EXCEPT !.delivered = NoEvent, !.resolved = << >>]

\* signalQueue: the waiting iterator, if any, is resolved; woken holds
\* until the resumed next() has run.
SignalQueueNever(s) == s

SignalQueue(s) ==
  IF s.blocked THEN [s EXCEPT !.blocked = FALSE, !.woken = TRUE] ELSE s

\* enqueueControl for the events of kinds, in order, all with content id.
RECURSIVE EnqueueControl(_, _, _, _)
EnqueueControl(s, kinds, id, text) ==
  IF kinds = << >> THEN s
  ELSE EnqueueControl(
         SignalQueue([s EXCEPT
           !.controlQueue = Append(@, OutEvent(s, Head(kinds), id,
                                      IF Head(kinds) \in {"textInput", "toolResult"}
                                      THEN text ELSE << >>)),
           !.stamp = @ + 1]),
         Tail(kinds), id, text)

\* enqueueAudio
EnqueueAudio(s, a) ==
  SignalQueue([s EXCEPT !.audioQueue = Append(@, OutEvent(s, "audioInput", a, << >>)),
                        !.stamp = @ + 1])

\* queueSessionSetup: the six events that open the session, the system
\* prompt (content 1) and the audio input content (content 2).
SystemContent == 1
AudioContent == 2
QueueSessionSetupAudioFirst(s) ==
  EnqueueControl(
    EnqueueControl(
      EnqueueControl(s, <<"contentStart">>, AudioContent, << >>),
      <<"sessionStart", "promptStart">>, 0, << >>),
    <<"contentStart", "textInput", "contentEnd">>, SystemContent, <<"system">>)

QueueSessionSetup(s) ==
  EnqueueControl(
    EnqueueControl(
      EnqueueControl(s, <<"sessionStart", "promptStart">>, 0, << >>),
      <<"contentStart", "textInput", "contentEnd">>, SystemContent, <<"system">>),
    <<"contentStart">>, AudioContent, << >>)

\* connect(), with client.send returning: the session is active and the
\* SDK holds the outbound iterator.  On a connected session it returns at
\* once.
NsConnect ==
  /\ ~ns.closeRequested
  /\ env.connects < MaxConnects
  /\ env' = [env EXCEPT !.connects = @ + 1]
  /\ ns' = IF ns.connected THEN ns
           ELSE QueueSessionSetup([ns EXCEPT !.active = TRUE, !.connected = TRUE])
  /\ log' = Quiet
  /\ UNCHANGED <<turn, tools>>
  /\ UNCHANGED mgrVars

\* sendAudio(pcm) for the a-th audio frame of the carrier.
NsSendAudio ==
  /\ ns.connected
  /\ env.audio < MaxAudio
  /\ env' = [env EXCEPT !.audio = @ + 1]
  /\ ns' = IF ns.active THEN EnqueueAudio(ns, env.audio + 1) ELSE ns
  /\ log' = Quiet
  /\ UNCHANGED <<turn, tools>>
  /\ UNCHANGED mgrVars

\* sendText(text): contentStart, textInput, contentEnd under a fresh
\* content name.
TextContent == 3
NsSendText ==
  /\ ns.connected
  /\ env.texts < MaxSendTexts
  /\ env' = [env EXCEPT !.texts = @ + 1]
  /\ ns' = IF ns.active
           THEN EnqueueControl(ns, <<"contentStart", "textInput", "contentEnd">>,
                               TextContent, <<"message">>)
           ELSE ns
  /\ log' = Quiet
  /\ UNCHANGED <<turn, tools>>
  /\ UNCHANGED mgrVars

\* sendToolResult(toolUseId, result)
SendToolResult(s, id, result) ==
  IF s.active
  THEN EnqueueControl(s, <<"contentStart", "toolResult", "contentEnd">>, id, result)
  ELSE s

\* The teardown events of close().
CloseSequenceAbrupt == <<"sessionEnd">>

CloseSequence == <<"contentEnd", "promptEnd", "sessionEnd">>

\* close()
NsClose ==
  /\ ns.connected
  /\ ns' = IF ns.active
           THEN SignalQueue(
                  [EnqueueControl([ns EXCEPT !.active = FALSE], CloseSequence,
                                  AudioContent, << >>)
                     EXCEPT !.closeRequested = TRUE])
           ELSE ns
  /\ log' = Quiet
  /\ UNCHANGED <<turn, env, tools>>
  /\ UNCHANGED mgrVars

\* The gate of the audio queue in next().
AudioGateOpen(s) == TRUE

AudioGate(s) == ~s.modelSpeaking

\* The choice made by one evaluation of next() after its wait loop:
\* "control", "audio", "done" or "wait".
NextChoiceAudioFirst(s) ==
  IF s.audioQueue # << >> /\ AudioGate(s) THEN "audio"
  ELSE IF s.controlQueue # << >> THEN "control"
  ELSE IF s.closeRequested THEN "done"
  ELSE "wait"

NextChoice(s) ==
  IF s.controlQueue # << >> THEN "control"
  ELSE IF s.audioQueue # << >> /\ AudioGate(s) THEN "audio"
  ELSE IF s.closeRequested THEN "done"
  ELSE "wait"

\* next() of the outbound iterator, called by the SDK (or resumed after a
\* wake-up): it returns an event, ends the stream, or waits for a signal.
NsNext ==
  /\ ns.connected
  /\ ~ns.blocked
  /\ ~ns.done
  /\ LET ch == NextChoice(ns) IN
       /\ ns' = CASE ch = "control" ->
                       [ns EXCEPT !.controlQueue = Tail(@), !.woken = FALSE]
                  [] ch = "audio" ->
                       [ns EXCEPT !.audioQueue = Tail(@), !.woken = FALSE]
                  [] ch = "done" -> [ns EXCEPT !.done = TRUE, !.woken = FALSE]
                  [] OTHER -> [ns EXCEPT !.blocked = TRUE, !.woken = FALSE]
       /\ log' = CASE ch = "control" ->
                        [log EXCEPT !.delivered = Head(ns.controlQueue),
                                    !.sent = Append(@, Head(ns.controlQueue)),
                                    !.resolved = << >>]
                   [] ch = "audio" ->
                        [log EXCEPT !.delivered = Head(ns.audioQueue),
                                    !.sent = Append(@, Head(ns.audioQueue)),
                                    !.resolved = << >>]
                   [] OTHER -> Quiet
  /\ UNCHANGED <<turn, env, tools>>
  /\ UNCHANGED mgrVars

\* -------------------------------------------- NovaSonicSession: inbound
\* processResponseStream handles an event unless the session is neither
\* active nor closing.
Receiving == ns.connected /\ (ns.active \/ ns.closeRequested)

\* The pieces a tool input arrives in.
Chunks == {<<"{">>, <<"}">>}

NoToolUse == [toolUseId |-> 0, toolName |-> "", content |-> << >>]

\* The tool the model asks for in tool use b.
ToolName(b) == IF b = 1 THEN "run_command" ELSE "docker_status"

\* contentStart of a new content block b: kind "speech" has type AUDIO and
\* role ASSISTANT, kind "tool" has type TOOL and role TOOL.
NsContentStart(kind) ==
  /\ Receiving
  /\ env.blocks < MaxBlocks
  /\ LET b == env.blocks + 1 IN
       env' = [env EXCEPT !.blocks = b, !.open = @ \cup {b}, !.kind[b] = kind,
                          !.speaker = IF kind = "speech" THEN b ELSE @]
  /\ ns' = IF kind = "speech" THEN [ns EXCEPT !.modelSpeaking = TRUE] ELSE ns
  /\ log' = Quiet
  /\ UNCHANGED <<turn, tools>>
  /\ UNCHANGED mgrVars

\* The pendingToolUse a toolUse event leaves behind.
Pending(pending, id, name, chunk) ==
  [toolUseId |-> id, toolName |-> name, content |-> chunk]

\* A toolUse event of tool use b carrying the next piece of its input.
NsToolUse(b, chunk) ==
  /\ Receiving
  /\ b \in env.open
  /\ env.kind[b] = "tool"
  /\ Len(env.chunks[b]) < MaxChunks
  /\ env' = [env EXCEPT !.chunks[b] = Append(@, chunk)]
  /\ ns' = [ns EXCEPT !.pendingToolUse = Pending(@, b, ToolName(b), chunk)]
  /\ log' = Quiet
  /\ UNCHANGED <<turn, tools>>
  /\ UNCHANGED mgrVars

\* JSON.parse of the accumulated input: "{}" is the one text that parses.
ParsedOrRaw(content) ==
  [json |-> content = <<"{", "}">>, value |-> content]

\* Whether a contentEnd clears modelSpeaking.
ClearsSpeaking(s) == s.modelSpeaking

\* contentEnd of block b: modelSpeaking is cleared, and a contentEnd of
\* type TOOL dispatches the pending tool use to onToolUse, whose handler
\* starts executeTool.
NsContentEnd(b) ==
  /\ Receiving
  /\ b \in env.open
  /\ env' = [env EXCEPT !.open = @ \ {b}]
  /\ LET s1 == IF ClearsSpeaking(ns)
               THEN SignalQueue([ns EXCEPT !.modelSpeaking = FALSE]) ELSE ns
         tu == ns.pendingToolUse IN
       IF env.kind[b] = "tool" /\ tu # NoToolUse
       THEN /\ ns' = [s1 EXCEPT !.pendingToolUse = NoToolUse]
            /\ log' = [Quiet EXCEPT !.dispatched =
                         Append(@, [toolName |-> tu.toolName, toolUseId |-> tu.toolUseId,
                                    input |-> ParsedOrRaw(tu.content)])]
            /\ tools' = tools \cup {tu.toolUseId}
       ELSE /\ ns' = s1
            /\ log' = Quiet
            /\ UNCHANGED tools
  /\ UNCHANGED turn
  /\ UNCHANGED mgrVars

\* waitForUserSpeech as seen by the session hooks: the accumulator is
\* reset and a resolve callback installed.  since observes the USER text
\* received from then on.
TurnWait ==
  /\ ns.connected
  /\ env.waits < MaxWaits
  /\ env' = [env EXCEPT !.waits = @ + 1]
  /\ turn' = [transcript |-> << >>, resolve |-> TRUE,
              since |-> << >>]
  /\ log' = Quiet
  /\ UNCHANGED <<ns, tools>>
  /\ UNCHANGED mgrVars

\* The turn timeout or the hang-up poll rejects the wait.
TurnTimeout ==
  /\ turn.resolve
  /\ turn' = [turn EXCEPT !.resolve = FALSE]
  /\ log' = Quiet
  /\ UNCHANGED <<ns, env, tools>>
  /\ UNCHANGED mgrVars

\* textOutput: the onTextOutput hook accumulates USER text; the text of
\* the model itself is only logged.
NsTextOutput(role) ==
  /\ Receiving
  /\ env.heard < MaxHeard
  /\ env' = [env EXCEPT !.heard = @ + 1]
  /\ turn' = IF role = "USER"
             THEN [turn EXCEPT !.transcript = Append(@, env.heard + 1),
                               !.since = Append(@, env.heard + 1)]
             ELSE turn
  /\ log' = Quiet
  /\ UNCHANGED <<ns, tools>>
  /\ UNCHANGED mgrVars

\* Whether onTurnComplete resolves the pending wait.
TurnResolvesAlways(t) == t.resolve

TurnResolves(t) == t.resolve /\ t.transcript # << >>

\* completionEnd: the onTurnComplete hook.
NsCompletionEnd ==
  /\ Receiving
  /\ IF TurnResolves(turn)
     THEN /\ turn' = [turn EXCEPT !.resolve = FALSE, !.transcript = << >>]
          /\ log' = [Quiet EXCEPT !.resolved = <<turn.transcript>>]
     ELSE /\ UNCHANGED turn
          /\ log' = Quiet
  /\ UNCHANGED <<ns, env, tools>>
  /\ UNCHANGED mgrVars

\* ---------------------------------------------------------- tool executor
\* The text executeTool resolves with: the output of the tool, the text
\* of its own catch block, or the text in which runCommand reports a
\* command that failed.
ToolReply(outcome) ==
  CASE outcome = "ok" -> <<"output">>
    [] outcome = "throws" -> <<"Error: ", "message">>
    [] OTHER -> <<"Command failed: ", "stderr">>

ToolOutcomes == {"ok", "throws", "fails"}

\* executeTool settles for tool use id and the onToolUse handler sends
\* the result to the session.
ToolDone(id, outcome) ==
  /\ id \in tools
  /\ tools' = tools \ {id}
  /\ ns' = SendToolResult(ns, id, ToolReply(outcome))
  /\ log' = Quiet
  /\ UNCHANGED <<turn, env>>
  /\ UNCHANGED mgrVars

\* ------------------------------------------------- streaming TTS playback
\* The sizes of speakStreaming, in bytes.
OUTPUT_CHUNK_SIZE == 160

SAMPLES_PER_RESAMPLE == 6

JITTER_BUFFER_SIZE == 800

\* The chunk sizes the TTS stream yields, in bytes of 24 kHz PCM: less than
\* one resample unit, one frame and a rest, half the jitter buffer, the
\* whole jitter buffer.
TtsChunkSizes == {4, 964, 2400, 4800}

\* buf.length
BufLen(buf) == buf.hi - buf.lo

\* Buffer.concat([buf, next n bytes of the stream])
BufAppend(buf, n) == [buf EXCEPT !.hi = @ + n]

\* buf.subarray(0, n)
BufHead(buf, n) == [lo |-> buf.lo, hi |-> buf.lo + n]

\* buf.subarray(n)
BufTail(buf, n) == [buf EXCEPT !.lo = @ + n]

\* One turn of the loop of drainBuffer up to its await: a full chunk is
\* handed to sendMediaChunk and cut off the buffer.
DrainChunk(t) ==
  [t EXCEPT !.frames = Append(@, BufHead(t.pendingMuLaw, OUTPUT_CHUNK_SIZE)),
            !.pendingMuLaw = BufTail(@, OUTPUT_CHUNK_SIZE)]

\* The condition of the loop of drainBuffer.
CanDrain(t) == BufLen(t.pendingMuLaw) >= OUTPUT_CHUNK_SIZE

\* "Send any final partial chunk", after the last drainBuffer returned.
FinalChunk(t) ==
  [t EXCEPT !.frames = IF BufLen(t.pendingMuLaw) > 0
                       THEN Append(@, t.pendingMuLaw) ELSE @,
            !.pc = "done"]

\* drainBuffer is entered, or resumes after its 20 ms: it sends a chunk and
\* sleeps, or returns to its caller (the for-await loop, or the end of
\* speakStreaming).
Drain(t) ==
  IF CanDrain(t) THEN [DrainChunk(t) EXCEPT !.pc = "draining"]
  ELSE IF t.ended THEN FinalChunk(t)
  ELSE [t EXCEPT !.pc = "reading"]

\* The complete resample units of pendingPcm are cut off, resampled and
\* converted: 6 bytes of PCM give one byte of mu-law.
Convert(t) ==
  LET completeUnits == BufLen(t.pendingPcm) \div SAMPLES_PER_RESAMPLE
      bytesToProcess == completeUnits * SAMPLES_PER_RESAMPLE IN
    [t EXCEPT !.pendingPcm = BufTail(@, bytesToProcess),
              !.pendingMuLaw = BufAppend(@, completeUnits),
              !.produced = @ + completeUnits]

\* "Wait for jitter buffer to fill before starting playback"
JitterWaitNever(t) == FALSE

JitterWait(t) ==
  ~t.playbackStarted /\ BufLen(t.pendingMuLaw) < JITTER_BUFFER_SIZE

\* speakStreaming is called.
SpeakStreaming ==
  /\ tts.pc = "idle"
  /\ tts' = [tts EXCEPT !.pc = "reading"]
  /\ UNCHANGED <<config, currentCallId, activeCalls, cs, ccIndex, tokIndex, sockets,
                 init, cmds, loop, lastFrame, sd, agentVars, stt, brain, dsp>>

\* The TTS stream yields a chunk of n bytes: the body of the for-await loop
\* up to its continue or to the first await of drainBuffer.
TtsChunk(n) ==
  /\ tts.pc = "reading"
  /\ tts.chunks < MaxTtsChunks
  /\ LET got == [tts EXCEPT !.pendingPcm = BufAppend(@, n), !.chunks = @ + 1]
         t == Convert(got) IN
       tts' = IF BufLen(got.pendingPcm) < SAMPLES_PER_RESAMPLE THEN got
              ELSE IF JitterWait(t) THEN t
              ELSE Drain([t EXCEPT !.playbackStarted = TRUE])
  /\ UNCHANGED <<config, currentCallId, activeCalls, cs, ccIndex, tokIndex, sockets,
                 init, cmds, loop, lastFrame, sd, agentVars, stt, brain, dsp>>

\* The 20 ms sleep of drainBuffer is over.
DrainResume ==
  /\ tts.pc = "draining"
  /\ tts' = Drain(tts)
  /\ UNCHANGED <<config, currentCallId, activeCalls, cs, ccIndex, tokIndex, sockets,
                 init, cmds, loop, lastFrame, sd, agentVars, stt, brain, dsp>>

\* The TTS stream is over: the for-await loop ends and the last
\* drainBuffer is entered.
TtsEnd ==
  /\ tts.pc = "reading"
  /\ tts' = Drain([tts EXCEPT !.ended = TRUE])
  /\ UNCHANGED <<config, currentCallId, activeCalls, cs, ccIndex, tokIndex, sockets,
                 init, cmds, loop, lastFrame, sd, agentVars, stt, brain, dsp>>

\* The TTS stream throws: speakStreaming rejects with what it holds unsent.
TtsThrow ==
  /\ tts.pc = "reading"
  /\ tts' = [tts EXCEPT !.pc = "failed"]
  /\ UNCHANGED <<config, currentCallId, activeCalls, cs, ccIndex, tokIndex, sockets,
                 init, cmds, loop, lastFrame, sd, agentVars, stt, brain, dsp>>

\* ------------------------------------------------ self-hosted STT session
\* Minimum time since the start of speech before silence is accepted, ms.
MIN_SPEECH_MS == 300

\* The silence durations an operator configures, ms: a short one and the
\* default.
SilenceOptions == {200, 800}

\* How a transcription post settles: a transcript, an empty transcript, a
\* response that is not ok, a rejected fetch.
PostOutcomes == {"transcript", "empty", "httpError", "exception"}

\* new SelfHostedSTTSession(serverUrl, silenceDurationMs)
SttNew(ms) ==
  /\ ~stt.created
  /\ stt' = [stt EXCEPT !.created = TRUE, !.silenceDurationMs = ms]
  /\ UNCHANGED <<config, currentCallId, activeCalls, cs, ccIndex, tokIndex, sockets,
                 init, cmds, loop, lastFrame, sd, agentVars, tts, brain, dsp>>

\* connect(): the health check answered.
SttHealth ==
  /\ stt.created
  /\ ~stt.connected
  /\ stt.now = 0
  /\ stt' = [stt EXCEPT !.connected = TRUE]
  /\ UNCHANGED <<config, currentCallId, activeCalls, cs, ccIndex, tokIndex, sockets,
                 init, cmds, loop, lastFrame, sd, agentVars, tts, brain, dsp>>

\* triggerTranscription() up to its fetch: a no-op while a post is in
\* flight or nothing is buffered; else the buffer is taken, the detector
\* reset and the post sent.
TriggerGuard(t) == t.transcribing \/ t.chunks = 0

TriggerTranscription(t) ==
  IF TriggerGuard(t) THEN t
  ELSE [t EXCEPT !.transcribing = TRUE, !.chunks = 0, !.speechStarted = FALSE,
                 !.speechStartTime = 0, !.silenceStartMs = 0,
                 !.isSpeaking = FALSE, !.inFlight = @ + 1,
                 !.posts = Append(@, [speech |-> t.speechMs, quiet |-> t.quietMs]),
                 !.speechMs = 0, !.quietMs = 0]

\* The silence check of sendAudio.
UtteranceOver(t) ==
  /\ t.speechStarted
  /\ t.silenceStartMs # 0
  /\ ~t.transcribing
  /\ t.speechStartTime # 0
  /\ t.now - t.speechStartTime >= MIN_SPEECH_MS
  /\ t.now - t.silenceStartMs >= t.silenceDurationMs

\* The detector of sendAudio on a chunk above the energy threshold.
OnSpeech(t) ==
  [t EXCEPT !.isSpeaking = TRUE,
            !.speechStarted = TRUE,
            !.speechStartTime = IF ~t.isSpeaking /\ ~t.speechStarted THEN t.now ELSE @,
            !.silenceStartMs = 0]

\* The detector of sendAudio on a chunk at or below the threshold.
OnSilence(t) ==
  LET u == IF t.isSpeaking
           THEN [t EXCEPT !.isSpeaking = FALSE, !.silenceStartMs = t.now] ELSE t IN
    IF UtteranceOver(u) THEN TriggerTranscription(u) ELSE u

\* sendAudio(chunk), TickMs after the chunk before it; loud says whether the
\* energy of the chunk is above the threshold.  Dropped unless connected.
SttSendAudio(loud) ==
  /\ stt.created
  /\ stt.now < MaxTicks * TickMs
  /\ LET t == [stt EXCEPT !.now = @ + TickMs] IN
       stt' = IF ~t.connected THEN t
              ELSE LET b == [t EXCEPT !.chunks = @ + 1,
                                      !.speechMs = IF loud THEN @ + TickMs ELSE @,
                                      !.quietMs = IF loud THEN 0 ELSE @ + TickMs] IN
                     IF loud THEN OnSpeech(b) ELSE OnSilence(b)
  /\ UNCHANGED <<config, currentCallId, activeCalls, cs, ccIndex, tokIndex, sockets,
                 init, cmds, loop, lastFrame, sd, agentVars, tts, brain, dsp>>

\* What is left of triggerTranscription once its post settled.
PostSettledKeep(t, outcome) == [t EXCEPT !.inFlight = @ - 1, !.settled = outcome]

PostSettled(t, outcome) ==
  [t EXCEPT !.inFlight = @ - 1, !.transcribing = FALSE, !.settled = outcome]

\* The post in flight settles.
SttPostSettles(outcome) ==
  /\ stt.inFlight > 0
  /\ stt' = PostSettled(stt, outcome)
  /\ UNCHANGED <<config, currentCallId, activeCalls, cs, ccIndex, tokIndex, sockets,
                 init, cmds, loop, lastFrame, sd, agentVars, tts, brain, dsp>>

\* close()
SttSessionClose ==
  /\ stt.connected
  /\ stt' = [stt EXCEPT !.connected = FALSE, !.chunks = 0]
  /\ UNCHANGED <<config, currentCallId, activeCalls, cs, ccIndex, tokIndex, sockets,
                 init, cmds, loop, lastFrame, sd, agentVars, tts, brain, dsp>>

\* ------------------------------------------------------------ ClaudeBrain
\* What Converse call k may answer: text k or none, the tool uses 10k+1..,
\* one of the three stop reasons, or an output without a message.
Responses(k) ==
  { [stopReason |-> "end_turn", toolUse |-> << >>, text |-> k, content |-> TRUE],
    [stopReason |-> "end_turn", toolUse |-> << >>, text |-> 0, content |-> FALSE],
    [stopReason |-> "max_tokens", toolUse |-> << >>, text |-> k, content |-> TRUE],
    [stopReason |-> "tool_use", toolUse |-> <<10 * k + 1, 10 * k + 2>>, text |-> 0,
     content |-> TRUE],
    [stopReason |-> "tool_use", toolUse |-> <<10 * k + 1>>, text |-> k, content |-> TRUE],
    [stopReason |-> "tool_use", toolUse |-> << >>, text |-> k, content |-> TRUE] }

\* this.messages.push({role, content})
Push(b, role, kind) == [b EXCEPT !.messages = Append(@, [role |-> role, kind |-> kind])]

\* callConverse() up to its await: Converse call number n + 1 is sent.
CallConverse(b, who) ==
  [b EXCEPT !.n = @ + 1, !.task[who].pc = "converse", !.task[who].k = b.n + 1]

\* respond(userText) up to the await of callConverse, called first thing by
\* claudeRespondAndSpeak.
ClaudeRespondAndSpeak(who) ==
  /\ brain.task[who].pc \in {"idle", "done", "failed"}
  /\ brain.n < MaxConverse
  /\ brain' = CallConverse(
                [Push(brain, "user", "text") EXCEPT
                   !.task[who] = [NoTask EXCEPT !.op = "respondAndSpeak"]], who)
  /\ UNCHANGED <<config, currentCallId, activeCalls, cs, ccIndex, tokIndex, sockets,
                 init, cmds, loop, lastFrame, sd, agentVars, tts, stt, dsp>>

\* injectContext(message) up to the await of callConverse.
InjectContext(who) ==
  /\ brain.task[who].pc \in {"idle", "done", "failed"}
  /\ brain.n < MaxConverse
  /\ brain' = CallConverse(
                [Push(brain, "user", "system") EXCEPT
                   !.task[who] = [NoTask EXCEPT !.op = "injectContext"]], who)
  /\ UNCHANGED <<config, currentCallId, activeCalls, cs, ccIndex, tokIndex, sockets,
                 init, cmds, loop, lastFrame, sd, agentVars, tts, stt, dsp>>

\* The rest of callConverse once Converse answered r: the assistant message
\* is pushed for an end_turn answer that carries a message.
ConverseAnswer(b, r) ==
  IF r.content /\ r.stopReason = "end_turn" THEN Push(b, "assistant", "text") ELSE b

\* The condition of the tool loop of claudeRespondAndSpeak.
ContinuesNever(r) == FALSE

Continues(r) == r.stopReason = "tool_use" /\ Len(r.toolUse) > 0

\* claudeRespondAndSpeak with response r in hand: the tools are started, or
\* the text is spoken, or there is nothing to speak.
AfterResponse(t, r) ==
  IF Continues(r)
  THEN [t EXCEPT !.pc = "tools", !.response = r, !.pending = DOMAIN r.toolUse,
                 !.results = [i \in DOMAIN r.toolUse |-> 0]]
  ELSE [t EXCEPT !.pc = IF r.text # 0 THEN "speaking" ELSE "done", !.response = r]

\* client.send resolves with some response for the caller who awaits it.
ConverseReturns(who) ==
  /\ brain.task[who].pc = "converse"
  /\ \E r \in Responses(brain.task[who].k) :
       LET b == ConverseAnswer(brain, r) IN
         brain' = IF brain.task[who].op = "injectContext"
                  THEN [b EXCEPT !.task[who].pc = "done", !.task[who].response = r]
                  ELSE [b EXCEPT !.task[who] = AfterResponse(@, r)]
  /\ UNCHANGED <<config, currentCallId, activeCalls, cs, ccIndex, tokIndex, sockets,
                 init, cmds, loop, lastFrame, sd, agentVars, tts, stt, dsp>>

\* client.send rejects: the call of the brain throws to its caller.
ConverseThrows(who) ==
  /\ brain.task[who].pc = "converse"
  /\ brain' = [brain EXCEPT !.task[who].pc = "failed"]
  /\ UNCHANGED <<config, currentCallId, activeCalls, cs, ccIndex, tokIndex, sockets,
                 init, cmds, loop, lastFrame, sd, agentVars, tts, stt, dsp>>

\* handleToolResults(toolUse, results) up to the await of callConverse.
HandleToolResults(b, who) ==
  LET t == b.task[who]
      pushed == Push(Push(b, "assistant", "toolUse"), "user", "toolResult") IN
    CallConverse(
      [pushed EXCEPT !.task[who].calls =
         Append(@, [toolUse |-> t.response.toolUse, results |-> t.results])], who)

\* executeTool of tool use i of the response resolves; Promise.all keeps the
\* results in the order of the tool uses and, when the last one is in,
\* handleToolResults is called.
ToolFinishes(who, i) ==
  /\ brain.task[who].pc = "tools"
  /\ i \in brain.task[who].pending
  /\ brain.task[who].pending = {i} => brain.n < MaxConverse
  /\ LET b == [brain EXCEPT !.task[who].pending = @ \ {i},
                            !.task[who].results[i] = brain.task[who].response.toolUse[i]] IN
       brain' = IF b.task[who].pending = {} THEN HandleToolResults(b, who) ELSE b
  /\ UNCHANGED <<config, currentCallId, activeCalls, cs, ccIndex, tokIndex, sockets,
                 init, cmds, loop, lastFrame, sd, agentVars, tts, stt, dsp>>

\* speak(state, response.text) returns or throws.
SpeakReturns(who) ==
  /\ brain.task[who].pc = "speaking"
  /\ \/ brain' = [brain EXCEPT !.task[who].pc = "done",
                               !.task[who].spoken = Append(@, brain.task[who].response.text)]
     \/ brain' = [brain EXCEPT !.task[who].pc = "failed"]
  /\ UNCHANGED <<config, currentCallId, activeCalls, cs, ccIndex, tokIndex, sockets,
                 init, cmds, loop, lastFrame, sd, agentVars, tts, stt, dsp>>

\* ------------------------------------------------------------ downsampling
\* Values of a 16-bit sample: the two ends of the range and two small ones.
SampleValues == {-32768, -1, 2, 32767}

\* The buffers of 24 kHz samples of up to n samples.
SampleBuffers(n) == UNION {[1..k -> SampleValues] : k \in 0..n}

\* Math.round(sum / 3)
RoundThird(sum) == (2 * sum + 3) \div 6

\* The averaging loop of both downsamplers: output sample i of
\* outputSamples, over input pcm.
Averaged(pcm, outputSamples) ==
  [i \in 1..outputSamples |->
     LET baseIdx == (i - 1) * 3
         s0 == pcm[baseIdx + 1]
         s1 == IF baseIdx + 1 < Len(pcm) THEN pcm[baseIdx + 2] ELSE s0
         s2 == IF baseIdx + 2 < Len(pcm) THEN pcm[baseIdx + 3] ELSE s1 IN
       RoundThird(s0 + s1 + s2)]

\* CallManager.resample24kTo8k
Resample24kTo8k(pcmData) == Averaged(pcmData, Len(pcmData) \div 3)

\* Step 1 of novaSonicPCMToMulaw
NovaSonicPcm8k(pcm24k) == Averaged(pcm24k, Len(pcm24k) \div 3)

\* The split-mode playback path downsamples the buffer.
ResampleSplit ==
  /\ "split" \notin dsp.done
  /\ dsp' = [dsp EXCEPT !.split = Resample24kTo8k(dsp.input), !.done = @ \cup {"split"}]
  /\ UNCHANGED <<config, currentCallId, activeCalls, cs, ccIndex, tokIndex, sockets,
                 init, cmds, loop, lastFrame, sd, agentVars, tts, stt, brain>>

\* The unified-mode audio output hook downsamples the buffer.
ResampleUnified ==
  /\ "unified" \notin dsp.done
  /\ dsp' = [dsp EXCEPT !.unified = NovaSonicPcm8k(dsp.input), !.done = @ \cup {"unified"}]
  /\ UNCHANGED <<config, currentCallId, activeCalls, cs, ccIndex, tokIndex, sockets,
                 init, cmds, loop, lastFrame, sd, agentVars, tts, stt, brain>>

\* ---------------------------------------------------------- specification
Next ==
  \/ InitiateCall
  \/ \E c \in CallIds : SttConnect(c)
  \/ \E c \in CallIds : PlaceOutbound(c)
  \/ \E c \in CallIds : WaitForConnection(c)
  \/ \E c \in CallIds : WaitForConnectionTimeout(c)
  \/ \E c \in CallIds : AgentConnect(c)
  \/ \E c \in CallIds : Greeting(c)
  \/ \E c \in CallIds : InitPoll(c)
  \/ \E c \in CallIds : InitTurnTimeout(c)
  \/ \E c \in CallIds : LoopStart(c)
  \/ \E c \in CallIds : LoopSpeak(c)
  \/ \E c \in CallIds : LoopPoll(c)
  \/ \E c \in CallIds : LoopTimeout(c)
  \/ \E c \in CallIds : ContinueCall(c)
  \/ \E c \in CallIds : SpeakOnly(c)
  \/ \E c \in CallIds : EndCall(c)
  \/ \E w \in CmdIds : CmdSpeak(w)
  \/ \E w \in CmdIds : CmdPoll(w)
  \/ \E w \in CmdIds : CmdTurnTimeout(w)
  \/ \E w \in CmdIds : EndDrained(w)
  \/ \E w \in CmdIds : EndHangup(w)
  \/ \E w \in CmdIds : CmdReturn(w)
  \/ \E c \in CallIds : AgentStreamEnd(c)
  \/ \E c \in CallIds : TextOutputUser(c)
  \/ \E c \in CallIds : CompletionEnd(c)
  \/ \E c \in CallIds : AudioOutput(c)
  \/ \E c \in CallIds : Interruption(c)
  \/ \E c \in CallIds : SttTranscript(c)
  \/ \E sig \in {"valid", "invalid"}, ref \in Refs, status \in {"terminal", "progress"} :
        TwilioWebhook(sig, ref, status)
  \/ \E sig \in {"valid", "invalid"}, ref \in Refs,
        event \in {"call.answered", "call.hangup", "streaming.started"} :
        TelnyxWebhook(sig, ref, event)
  \/ \E tok \in Tokens : Upgrade(tok)
  \/ \E i \in 1..MaxSockets : StartFrame(i)
  \/ \E i \in 1..MaxSockets : StopFrame(i)
  \/ \E i \in 1..MaxSockets : WsClose(i)

Spec == Init /\ [][Next]_vars

\* Call set-up and carrier traffic in every deployment: the steps of
\* initiateCall, the webhooks and the media WebSocket, for each outcome of
\* resolveUrls and each provider configuration.
NextDeploy ==
  \/ InitiateCall
  \/ \E c \in CallIds : SttConnect(c)
  \/ \E c \in CallIds : PlaceOutbound(c)
  \/ \E c \in CallIds : WaitForConnection(c)
  \/ \E c \in CallIds : WaitForConnectionTimeout(c)
  \/ \E c \in CallIds : AgentConnect(c)
  \/ \E c \in CallIds : Greeting(c)
  \/ \E sig \in {"valid", "invalid"}, ref \in Refs, status \in {"terminal", "progress"} :
        TwilioWebhook(sig, ref, status)
  \/ \E sig \in {"valid", "invalid"}, ref \in Refs,
        event \in {"call.answered", "call.hangup", "streaming.started"} :
        TelnyxWebhook(sig, ref, event)
  \/ \E tok \in Tokens : Upgrade(tok)
  \/ \E i \in 1..MaxSockets : StartFrame(i)
  \/ \E i \in 1..MaxSockets : StopFrame(i)
  \/ \E i \in 1..MaxSockets : WsClose(i)

SpecDeploy == InitDeploy /\ [][NextDeploy]_vars

\* Calls being set up or established when the process gets SIGINT or
\* SIGTERM: call set-up and carrier traffic, then the signal handler and the
\* endCall it starts for each session.
NextShutdown ==
  \/ InitiateCall
  \/ \E c \in CallIds : SttConnect(c)
  \/ \E c \in CallIds : PlaceOutbound(c)
  \/ \E c \in CallIds : WaitForConnection(c)
  \/ \E c \in CallIds : WaitForConnectionTimeout(c)
  \/ \E c \in CallIds : AgentConnect(c)
  \/ \E c \in CallIds : Greeting(c)
  \/ \E c \in CallIds : AgentStreamEnd(c)
  \/ \E sig \in {"valid", "invalid"}, ref \in Refs, status \in {"terminal", "progress"} :
        TwilioWebhook(sig, ref, status)
  \/ \E sig \in {"valid", "invalid"}, ref \in Refs,
        event \in {"call.answered", "call.hangup", "streaming.started"} :
        TelnyxWebhook(sig, ref, event)
  \/ \E tok \in Tokens : Upgrade(tok)
  \/ \E i \in 1..MaxSockets : StartFrame(i)
  \/ \E i \in 1..MaxSockets : StopFrame(i)
  \/ \E i \in 1..MaxSockets : WsClose(i)
  \/ Shutdown
  \/ Exit
  \/ \E c \in CallIds : ShutdownSpeak(c)
  \/ \E c \in CallIds : ShutdownDrained(c)
  \/ \E c \in CallIds : ShutdownHangup(c)

SpecShutdown == Init /\ [][NextShutdown]_vars

\* One agent session from connect to the end of its outbound stream, with
\* the hooks of setupNovaSonicSession and the tool executor.
InitAgent ==
  /\ Boot({cfg \in CoreConfigs : cfg.novaMode /\ cfg.carrier = "twilio"})
  /\ dsp = NoSamples

NextAgent ==
  \/ NsConnect
  \/ NsSendAudio
  \/ NsSendText
  \/ NsClose
  \/ NsNext
  \/ \E kind \in {"speech", "tool"} : NsContentStart(kind)
  \/ \E b \in 1..MaxBlocks : NsContentEnd(b)

SpecAgent == InitAgent /\ [][NextAgent]_vars

\* The same session with the SDK pulling from the outbound iterator for as
\* long as it has not ended.
SpecAgentFair == SpecAgent /\ WF_vars(NsNext)

\* The tool uses of one agent session: the model's content blocks and
\* toolUse events, the dispatch to onToolUse and the tool executor.
NextTools ==
  \/ NsConnect
  \/ NsClose
  \/ \E kind \in {"speech", "tool"} : NsContentStart(kind)
  \/ \E b \in 1..MaxBlocks, chunk \in Chunks : NsToolUse(b, chunk)
  \/ \E b \in 1..MaxBlocks : NsContentEnd(b)
  \/ \E id \in 1..MaxBlocks, outcome \in ToolOutcomes : ToolDone(id, outcome)

SpecTools == InitAgent /\ [][NextTools]_vars

\* The user turns of one agent session: the transcript hooks and the turn
\* waits of the manager.
NextTurn ==
  \/ NsConnect
  \/ NsClose
  \/ \E role \in {"USER", "ASSISTANT"} : NsTextOutput(role)
  \/ NsCompletionEnd
  \/ TurnWait
  \/ TurnTimeout

SpecTurn == InitAgent /\ [][NextTurn]_vars

\* A split-mode deployment: the pipeline of STT session, brain and TTS.
InitSplit ==
  /\ Boot({cfg \in CoreConfigs : ~cfg.novaMode /\ cfg.carrier = "twilio"})
  /\ dsp = NoSamples

\* One streaming playback on a split-mode call.
NextTts ==
  \/ SpeakStreaming
  \/ \E n \in TtsChunkSizes : TtsChunk(n)
  \/ DrainResume
  \/ TtsEnd
  \/ TtsThrow

SpecTts == InitSplit /\ [][NextTts]_vars

\* One self-hosted STT session fed with audio.
NextStt ==
  \/ \E ms \in SilenceOptions : SttNew(ms)
  \/ SttHealth
  \/ \E loud \in BOOLEAN : SttSendAudio(loud)
  \/ \E outcome \in PostOutcomes : SttPostSettles(outcome)
  \/ SttSessionClose

SpecStt == InitSplit /\ [][NextStt]_vars

\* The brain of one split-mode session and its two callers.
NextBrain ==
  \/ \E who \in Callers : ClaudeRespondAndSpeak(who)
  \/ \E who \in Callers : InjectContext(who)
  \/ \E who \in Callers : ConverseReturns(who)
  \/ \E who \in Callers : ConverseThrows(who)
  \/ \E who \in Callers : \E i \in 1..2 : ToolFinishes(who, i)
  \/ \E who \in Callers : SpeakReturns(who)

SpecBrain == InitSplit /\ [][NextBrain]_vars

\* Both downsamplers on one buffer of samples.
InitDsp ==
  /\ Boot({cfg \in CoreConfigs : ~cfg.novaMode /\ cfg.carrier = "twilio"})
  /\ dsp \in {[NoSamples EXCEPT !.input = pcm] : pcm \in SampleBuffers(MaxSamples)}

NextDsp ==
  \/ ResampleSplit
  \/ ResampleUnified

SpecDsp == InitDsp /\ [][NextDsp]_vars

\* -------------------------------------------------------------- properties
\* C1: each wsToken is accepted for at most one /media-stream upgrade: no
\* two sockets were ever accepted on the token of the same call.
C1_TokenAcceptedOnce ==
  \A c \in CallIds :
    Cardinality({i \in 1..Len(sockets) :
                   sockets[i].how = "token" /\ sockets[i].call = c}) <= 1

\* C2: an upgrade whose token is absent or unknown is rejected and binds no
\* socket unless usingNgrok is set: every socket accepted without a token
\* match was accepted under usingNgrok.
C2_UntokenizedNeedsFlag ==
  \A i \in 1..Len(sockets) : sockets[i].how # "token" => config.usingNgrok

\* C3: with usingNgrok (trust-without-signature) unset, a carrier A webhook
\* whose signature is missing or invalid is answered 401, is served no
\* directive and changes no session state.
C3_UnsignedWebhookRejected ==
  [][\A ref \in Refs, status \in {"terminal", "progress"} :
       (~config.usingNgrok /\ TwilioWebhook("invalid", ref, status)) =>
         /\ TwilioResponse("invalid", ref, status) = [code |-> 401, directive |-> -1]
         /\ UNCHANGED <<activeCalls, cs, ccIndex, tokIndex, sockets>>]_vars

\* C4: continue_call, speak_to_user and end_call issued while the session is
\* not in READY fail with an error at once: they reach no await, so nothing
\* is sent to the agent or the carrier.
C4_CommandsNeedReady ==
  [][\A c \in CallIds :
       (~SessionReady(c) /\ (ContinueCall(c) \/ SpeakOnly(c) \/ EndCall(c))) =>
         /\ cmds'[Len(cmds')].pc = "done"
         /\ cmds'[Len(cmds')].result \in {"nocall", "error"}
         /\ ~(InReg(c) /\ AgentActive(c))]_vars

\* C5: per call at most one of initiate_call, continue_call, speak_to_user
\* and end_call is executing, and at most one task is in a turn wait.
C5_OneCommandAtATime ==
  \A c \in CallIds :
    LET running == {w \in 1..Len(cmds) : cmds[w].call = c /\ cmds[w].pc # "done"}
        waits == {w \in running : cmds[w].pc \in {"waiting", "listening"}}
        initRuns == init[c].pc \notin {"none", "done"}
        initWaits == init[c].pc \in {"waiting", "listening"}
    IN /\ Cardinality(running) + (IF initRuns THEN 1 ELSE 0) <= 1
       /\ Cardinality(waits) + (IF initWaits THEN 1 ELSE 0) <= 1

\* C6: when the call reaches a terminal status or a stop frame arrives while
\* continue_call waits for the user's turn, a 100 ms poll tick that fires
\* with hungUp set ends the wait with the hang-up error, in unified mode
\* (waitForUserSpeech) and in split mode (listen): no tick leaves it pending.
C6_HangupEndsTurnWait ==
  [][\A w \in CmdIds :
       (CmdPoll(w) /\ cmds[w].kind = "continue") =>
         /\ cmds'[w].pc = "done"
         /\ cmds'[w].result = "hangup"
         /\ cmds'[w].missed = 0]_vars

\* A continue_call whose turn wait was ended by the hang-up poll.
C6_Witness ==
  \E w \in 1..Len(cmds) :
    /\ cmds[w].kind = "continue"
    /\ cmds[w].result = "hangup"
    /\ cs[cmds[w].call].hungUp
    /\ cmds[w].agent

\* C7: whenever a Driver command has failed with the hang-up error, the
\* session is no longer in the registry.
C7_HangupErrorRemovesSession ==
  /\ \A w \in 1..Len(cmds) : cmds[w].result = "hangup" => ~InReg(cmds[w].call)
  /\ \A c \in CallIds : init[c].result = "hangup" => ~InReg(c)

\* C8: once initiate_call has failed (carrier error, connection timeout,
\* agent or pipeline error, hang-up or turn timeout during the first wait),
\* the session is not in the registry.
C8_FailedInitiateRemoved ==
  \A c \in CallIds :
    (init[c].pc = "done" /\ init[c].result \in {"error", "timeout", "hangup"})
      => ~InReg(c)

\* An initiate_call that failed after the carrier had accepted the call.
C8_Witness ==
  \E c \in CallIds :
    /\ init[c].pc = "done"
    /\ init[c].result \in {"error", "timeout", "hangup"}
    /\ cs[c].callControlId # 0

C10_EndCallLeavesNothing ==
  \A w \in 1..Len(cmds) :
    (cmds[w].kind = "end" /\ cmds[w].result = "ok") =>
      LET c == cmds[w].call IN
        /\ ~InReg(c)
        /\ c \notin ccIndex
        /\ c \notin tokIndex
        /\ UpgradeDecision(c).how # "token"

\* C11: in split mode a transcript the STT session emits while initiate_call
\* listens for the first user response, on a call that is not hung up, is
\* returned by initiate_call; the conversation loop does not take it.
C11_FirstTranscriptToInitiate ==
  [][\A c \in CallIds :
       (SttTranscript(c) /\ init[c].pc = "listening" /\ ~cs[c].hungUp) =>
         /\ init'[c].pc = "done"
         /\ init'[c].result = "ok"
         /\ loop'[c] = loop[c]]_vars

\* C12: at most one task at a time is speaking on a session's media socket:
\* a turn of the conversation loop and the speak of continue_call,
\* speak_to_user or end_call never overlap.
C12_OneWriter ==
  \A c \in CallIds :
    LET speaking == {w \in 1..Len(cmds) : cmds[w].call = c /\ cmds[w].pc = "speaking"}
    IN ~config.novaMode =>
         Cardinality(speaking) + (IF loop[c] = "speaking" THEN 1 ELSE 0) <= 1

\* C13: the connect directive served for a ringing/in-progress webhook of a
\* live call this manager placed carries the session's wsToken, also while
\* the place-outbound request has not returned yet.
C13_DirectiveCarriesToken ==
  \A c \in CallIds :
    (InReg(c) /\ ~cs[c].hungUp /\ init[c].pc \in {"placing", "connecting"}) =>
      TwilioResponse("valid", c, "progress") = [code |-> 200, directive |-> c]

\* C14: a socket accepted by the fallback is bound to the most recently
\* created session of the registry, and every accepted socket is bound to a
\* session that is in the registry when it is accepted.
C14_AcceptedSocketsBound ==
  /\ \A i \in 1..Len(sockets) : sockets[i].call # 0
  /\ \A tok \in Tokens :
       LET d == UpgradeDecision(tok) IN
         d.how = "fallback" => (InReg(d.call) /\ d.call = activeCalls[Len(activeCalls)])

C16_TurnTimeoutKeepsSession ==
  [][\A w \in CmdIds :
       (CmdTurnTimeout(w) /\ cmds[w].kind = "continue") =>
         LET c == cmds[w].call IN
           /\ cmds'[w].pc = "done" /\ cmds'[w].result = "timeout"
           /\ activeCalls' = activeCalls
           /\ cs'[c].nova = cs[c].nova
           /\ cs'[c].sttSession = cs[c].sttSession
           /\ cs'[c].hungUp = cs[c].hungUp
           /\ cs'[c].turnResolve # w]_vars

\* A continue_call that timed out on a live session whose agent stream is
\* still open and which no wait holds.
C16_Witness ==
  \E w \in 1..Len(cmds) :
    /\ cmds[w].kind = "continue"
    /\ cmds[w].result = "timeout"
    /\ InReg(cmds[w].call)
    /\ ~cs[cmds[w].call].hungUp
    /\ cs[cmds[w].call].nova = "active"
    /\ cs[cmds[w].call].turnResolve = 0

\* C17: a terminal carrier status (carrier A) or call.hangup (carrier B)
\* processed for a known carrier ref leaves the session's hungUp set, and no
\* step ever resets hungUp.
C17_HungUpSetAndMonotone ==
  [][/\ \A c \in CallIds : cs[c].hungUp => cs'[c].hungUp
     /\ \A ref \in CallIds :
          (/\ HookCall(ref) # 0
           /\ \/ TwilioWebhook("valid", ref, "terminal")
              \/ TelnyxWebhook("valid", ref, "call.hangup"))
            => cs'[ref].hungUp]_vars

\* A registered session whose terminal status was processed: its index entry
\* is gone and hungUp is set.
C17_Witness ==
  \E c \in CallIds :
    /\ InReg(c)
    /\ cs[c].callControlId # 0
    /\ c \notin ccIndex
    /\ cs[c].hungUp

\* C18: when the agent's response stream fails or ends during a live call,
\* the agent session is closed, the session is ended (marked hung up or
\* removed from the registry) and no turn wait is left pending on it.
C18_StreamFailureEndsSession ==
  [][\A c \in CallIds :
       (AgentStreamEnd(c) /\ cs[c].nova = "active") =>
         /\ cs'[c].nova = "ended"
         /\ cs'[c].turnResolve = 0
         /\ (cs'[c].hungUp \/ c \notin {activeCalls'[i] : i \in 1..Len(activeCalls')})]_vars

\* C19: once the process has exited on a termination signal, the endCall of
\* every session that was in the registry has finished (it returned or
\* threw), after the closing message was handed to the session's agent.
C19_ExitAfterEndAttempts ==
  sd.phase = "exited" =>
    \A c \in CallIds :
      /\ sd.ends[c] \in {"none", "done", "failed"}
      /\ sd.ends[c] = "done" => c \in sd.handed

\* C20: at the step in which initiateCall starts waiting for the user's turn
\* (the session becomes READY), the media socket is open, the carrier has
\* acknowledged streaming and, in unified mode, the agent stream is connected.
C20_ReadyNeedsAllThree ==
  [][\A c \in CallIds :
       (/\ init[c].pc \notin {"waiting", "listening"}
        /\ init'[c].pc \in {"waiting", "listening"})
         => /\ ConnectionReady(c)'
            /\ config.novaMode => cs'[c].nova = "active"]_vars

\* C21: when executeTool settles with a failure for a tool use of an active
\* session, exactly one toolResult event is enqueued for that toolUseId, its
\* text begins with "Error: ", and the session is left as it was: still
\* active, not closing, the CallState and the registry untouched.
BeginsWith(text, prefix) == Len(text) > 0 /\ text[1] = prefix

C21_ToolErrorReported ==
  [][\A id \in 1..MaxBlocks, outcome \in {"throws", "fails"} :
       (ns.active /\ ToolDone(id, outcome)) =>
         LET q == ns'.controlQueue
             res == {i \in (Len(ns.controlQueue) + 1)..Len(q) : q[i].kind = "toolResult"} IN
           /\ Cardinality(res) = 1
           /\ \A i \in res : q[i].id = id /\ BeginsWith(q[i].text, "Error: ")
           /\ ns'.active /\ ~ns'.closeRequested
           /\ cs' = cs /\ activeCalls' = activeCalls]_vars

\* C22: a turn wait resolves only with a non-empty transcript, which is
\* exactly the USER text received since the wait began; a completionEnd
\* with no USER text since then leaves the wait pending, one with USER text
\* resolves it.
C22_TurnResolvesWithTextSinceWait ==
  [][/\ log'.resolved # << >> =>
          /\ turn.resolve
          /\ log'.resolved[1] # << >>
          /\ log'.resolved[1] = turn.since
     /\ (turn.resolve /\ NsCompletionEnd) =>
          IF turn.since = << >>
          THEN turn'.resolve /\ log'.resolved = << >>
          ELSE ~turn'.resolve /\ log'.resolved = <<turn.since>>]_vars

\* A second wait resolved with the second USER text only: the first one was
\* received before that wait began.
C22_Witness == env.waits = 2 /\ log.resolved = << <<2>> >>

\* C23: the outbound iterator delivers control events first and in enqueue
\* order: a step that delivers an event while the control queue is not
\* empty delivers the head of the control queue, which was enqueued before
\* every control event still queued; audio is delivered only when the
\* control queue is empty.
C23_ControlBeforeAudio ==
  [][log'.delivered # NoEvent =>
       IF ns.controlQueue # << >>
       THEN /\ log'.delivered = Head(ns.controlQueue)
            /\ log'.delivered.kind # "audioInput"
            /\ \A i \in DOMAIN ns'.controlQueue :
                 log'.delivered.n < ns'.controlQueue[i].n
       ELSE log'.delivered.kind = "audioInput"]_vars

\* A control event was delivered ahead of an ungated audio event that had
\* been enqueued before it.
C23_Witness ==
  /\ log.delivered.kind \notin {"none", "audioInput"}
  /\ ns.audioQueue # << >>
  /\ ~ns.modelSpeaking
  /\ Head(ns.audioQueue).n < log.delivered.n

\* C24: an audioInput event is delivered only in a step that starts with
\* modelSpeaking false, and it is the oldest one queued; while modelSpeaking
\* is true the audio queue keeps what it holds, in order, and only grows at
\* its tail.
IsPrefix(p, q) == Len(p) <= Len(q) /\ SubSeq(q, 1, Len(p)) = p

C24_AudioGatedWhileSpeaking ==
  [][/\ log'.delivered.kind = "audioInput" =>
          /\ ~ns.modelSpeaking
          /\ log'.delivered = Head(ns.audioQueue)
          /\ \A i \in DOMAIN ns'.audioQueue : log'.delivered.n < ns'.audioQueue[i].n
     /\ ns.modelSpeaking => IsPrefix(ns.audioQueue, ns'.audioQueue)]_vars

\* Two audio frames arrived while the model was speaking; the first has
\* just been delivered and the second is still queued.
C24_Witness ==
  /\ log.delivered.kind = "audioInput"
  /\ log.delivered.speaking
  /\ ns.audioQueue # << >>
  /\ Head(ns.audioQueue).speaking

RECURSIVE Concat(_)
Concat(pieces) ==
  IF pieces = << >> THEN << >> ELSE Head(pieces) \o Concat(Tail(pieces))

C26_ToolInputConcatenated ==
  [][Len(log'.dispatched) > Len(log.dispatched) =>
       LET d == log'.dispatched[Len(log'.dispatched)] IN
         d.input = ParsedOrRaw(Concat(env.chunks[d.toolUseId]))]_vars

\* C27: no tool use is dispatched to onToolUse more than once, and every
\* tool use whose TOOL block has ended after at least one toolUse event has
\* been dispatched exactly once, under its own toolUseId and toolName.
Dispatches(b) == {i \in DOMAIN log.dispatched : log.dispatched[i].toolUseId = b}

C27_EachToolUseDispatchedOnce ==
  \A b \in 1..MaxBlocks :
    /\ Cardinality(Dispatches(b)) <= 1
    /\ \A i \in Dispatches(b) : log.dispatched[i].toolName = ToolName(b)
    /\ (env.kind[b] = "tool" /\ b \notin env.open /\ env.chunks[b] # << >>)
         => Cardinality(Dispatches(b)) = 1

\* C28: modelSpeaking becomes true exactly on the contentStart of a speech
\* block (type AUDIO, role ASSISTANT) and becomes false only in the step
\* that ends that block; the contentEnd of another block leaves it true.
C28_SpeakingClearedByOwnBlock ==
  [][/\ (~ns.modelSpeaking /\ ns'.modelSpeaking) => NsContentStart("speech")
     /\ NsContentStart("speech") => ns'.modelSpeaking
     /\ (ns.modelSpeaking /\ ~ns'.modelSpeaking) =>
          (env.speaker \in env.open /\ env.speaker \notin env'.open)]_vars

\* C29: once close is requested, all control events of the session, those
\* delivered followed by those still queued, are in enqueue order and end
\* with the contentEnd of the audio content, promptEnd and sessionEnd; the
\* iterator ends only with the control queue empty, and with the consumer
\* pulling it does end.
IsControl(e) == e.kind # "audioInput"

ControlEvents == SelectSeq(log.sent, IsControl) \o ns.controlQueue

C29_TeardownInOrder ==
  /\ [](ns.closeRequested =>
          LET all == ControlEvents
              k == Len(all) IN
            /\ \A i, j \in 1..k : i < j => all[i].n < all[j].n
            /\ k >= 3
            /\ <<all[k - 2].kind, all[k - 1].kind, all[k].kind>>
                 = <<"contentEnd", "promptEnd", "sessionEnd">>
            /\ all[k - 2].id = AudioContent
            /\ ns.done => ns.controlQueue = << >>)
  /\ (ns.closeRequested ~> ns.done)

\* The stream has ended after a close that found the text of a sendText
\* in the control queue: the text went out, and after it the teardown.
C29_Witness ==
  /\ ns.done
  /\ \E i \in DOMAIN log.sent :
       /\ log.sent[i].kind = "textInput"
       /\ log.sent[i].id = TextContent
       /\ \E j \in DOMAIN log.sent :
            /\ log.sent[j].kind = "sessionStart"
            /\ j < i
  /\ log.sent[Len(log.sent)].kind = "sessionEnd"

\* C30: sessionEnd is the last event the agent stream gets: nothing is
\* delivered after it, neither audio still queued at close nor anything
\* sent after close.
C30_SessionEndIsLast ==
  \A i \in DOMAIN log.sent :
    log.sent[i].kind = "sessionEnd" => i = Len(log.sent)

\* C31: the first six events delivered on the stream of a session are
\* sessionStart, promptStart, the contentStart, textInput (the system
\* prompt) and contentEnd of the system content, and the contentStart of the
\* audio content, in that order; over the whole session, connect() calls
\* repeated, sessionStart and promptStart are enqueued exactly once.
SetupKinds ==
  <<"sessionStart", "promptStart", "contentStart", "textInput", "contentEnd",
    "contentStart">>

SetupIds == <<0, 0, SystemContent, SystemContent, SystemContent, AudioContent>>

C31_SetupSequenceFirst ==
  /\ \A i \in DOMAIN log.sent :
       i <= Len(SetupKinds) =>
         /\ log.sent[i].kind = SetupKinds[i]
         /\ log.sent[i].id = SetupIds[i]
         /\ log.sent[i].kind = "textInput" => log.sent[i].text = <<"system">>
  /\ ns.connected =>
       \A kind \in {"sessionStart", "promptStart"} :
         Cardinality({i \in DOMAIN ControlEvents : ControlEvents[i].kind = kind}) = 1

\* connect() was called twice and the stream has got the six set-up events
\* and, after them, an audio frame that was sent in between.
C31_Witness ==
  /\ env.connects = 2
  /\ Len(log.sent) > Len(SetupKinds)
  /\ log.sent[Len(SetupKinds) + 1].kind = "audioInput"
  /\ log.sent[Len(SetupKinds) + 1].n = Len(SetupKinds) + 1

\* C32: the step that handles a contentEnd with stopReason INTERRUPTED for
\* a call whose media socket is open writes one clear directive for that
\* call to the socket and leaves the session as it was.
C32_InterruptionClearsCarrier ==
  [][\A c \in CallIds :
       (WsOpen(c) /\ Interruption(c)) =>
         /\ lastFrame'.src = "clear"
         /\ lastFrame'.call = c
         /\ cs' = cs
         /\ activeCalls' = activeCalls]_vars

\* C33: every entry of the carrier-ref index and of the token index
\* refers to a session that is in the active registry.
C33_IndexesReferToActive ==
  \A c \in ccIndex \cup tokIndex : InReg(c)

\* C34: an end_call that found its session in the registry and is over,
\* however it ended (closing message failed, hangup request threw), has
\* removed the session from the registry.
C34_EndCallAlwaysRemoves ==
  \A w \in 1..Len(cmds) :
    (cmds[w].kind = "end" /\ cmds[w].pc = "done" /\ cmds[w].result # "nocall")
      => ~InReg(cmds[w].call)

C35_PostNeedsSpeechThenSilence ==
  \A i \in DOMAIN stt.posts :
    /\ stt.posts[i].speech >= 300
    /\ stt.posts[i].quiet >= stt.silenceDurationMs

\* C36: at most one transcription post is in flight, and the transcribing
\* flag is set exactly while one is.
C36_OnePostInFlight ==
  /\ stt.inFlight <= 1
  /\ stt.transcribing <=> stt.inFlight = 1

\* A second utterance was posted after the first post had settled, and
\* has settled too.
C36_Witness ==
  /\ Len(stt.posts) = 2
  /\ stt.inFlight = 0
  /\ ~stt.transcribing
  /\ stt.settled = "httpError"

C39_HistoryAlternates ==
  (\A who \in Callers : brain.task[who].pc \in {"idle", "done", "failed"}) =>
    \A i \in 1..(Len(brain.messages) - 1) :
      brain.messages[i].role # brain.messages[i + 1].role

\* C40: each downsampler returns, for n input samples, ceil(n/3) samples:
\* the rounded average of each group of 3 and, for a final partial group,
\* the rounded average of the group padded by repeating its last sample.
C40_DownsampleKeepsPartialGroup ==
  LET n == Len(dsp.input)
      at(j) == dsp.input[IF j <= n THEN j ELSE n]
      expected == [i \in 1..((n + 2) \div 3) |->
                     RoundThird(at(3 * i - 2) + at(3 * i - 1) + at(3 * i))] IN
    /\ "split" \in dsp.done => dsp.split = expected
    /\ "unified" \in dsp.done => dsp.unified = expected

====
